---- MODULE Spec2Model ----
(***************************************************************************)
(* A model of the Tile38 in-memory collection: the item (id, object,       *)
(* field block), the packed field codec, the identifier B-tree, the value  *)
(* B-tree, the R-tree and the Collection facade with its cursors.          *)
(*                                                                         *)
(* Strings (ids, string values) are finite sequences of character codes,   *)
(* compared lexicographically as Go compares strings.  Pointers to items   *)
(* are addresses into a heap; address 0 is the nil pointer.                *)
(***************************************************************************)
EXTENDS Integers, Sequences, FiniteSets, TLC

VARIABLES
    heap,      \* address -> item block (the *item.Item values that are live)
    items,     \* Collection.items    : btree.BTree, items sorted by id
    index,     \* Collection.index    : rtree.BoxTree, entries in traversal order
    values,    \* Collection.values   : value B-tree, a set of item addresses
    packed,    \* Collection.packed
    fieldMap,  \* Collection.fieldMap : sequence of names, name at position i+1 has index i
    weight,    \* Collection.weight
    points,    \* Collection.points
    objects,   \* Collection.objects
    nobjects,  \* Collection.nobjects
    last,      \* history: id -> object of the most recent Set not followed by Delete
    ret,       \* the last call: its name, arguments and results
    script     \* the bulk workload's position (fill order, drain order, cursors)

vars == <<heap, items, index, values, packed, fieldMap, weight, points,
          objects, nobjects, last, ret, script>>

(***************************************************************************)
(* Strings                                                                 *)
(***************************************************************************)
Min2(a, b) == IF a <= b THEN a ELSE b
Max2(a, b) == IF a >= b THEN a ELSE b
Abs(i) == IF i < 0 THEN -i ELSE i

RECURSIVE Pow2(_)
Pow2(n) == IF n = 0 THEN 1 ELSE 2 * Pow2(n - 1)

\* Go's s < t on strings: bytewise lexicographic, a proper prefix is smaller.
RECURSIVE StrLessFrom(_, _, _)
StrLessFrom(s, t, i) ==
    IF i > Len(s) THEN i <= Len(t)
    ELSE IF i > Len(t) THEN FALSE
    ELSE IF s[i] < t[i] THEN TRUE
    ELSE IF s[i] > t[i] THEN FALSE
    ELSE StrLessFrom(s, t, i + 1)

StrLess(s, t) == StrLessFrom(s, t, 1)
StrLeq(s, t) == ~StrLess(t, s)

(***************************************************************************)
(* Objects.  A geojson.Object is either spatial (it has a rectangle, a     *)
(* point count and may be empty) or a collection.String.                   *)
(***************************************************************************)
PointObj(x, y) ==
    [spatial |-> TRUE, empty |-> FALSE, min |-> <<x, y>>, max |-> <<x, y>>,
     npoints |-> 1, str |-> <<>>, circle |-> FALSE, meters |-> 0]

RectObj(x1, y1, x2, y2) ==
    [spatial |-> TRUE, empty |-> FALSE, min |-> <<x1, y1>>, max |-> <<x2, y2>>,
     npoints |-> 2, str |-> <<>>, circle |-> FALSE, meters |-> 0]

\* a spatial object with no geometry, such as geojson.NewMultiPoint(nil)
EmptyObj ==
    [spatial |-> TRUE, empty |-> TRUE, min |-> <<0, 0>>, max |-> <<0, 0>>,
     npoints |-> 0, str |-> <<>>, circle |-> FALSE, meters |-> 0]

\* collection.String(s)
String(s) ==
    [spatial |-> FALSE, empty |-> FALSE, min |-> <<0, 0>>, max |-> <<0, 0>>,
     npoints |-> 0, str |-> s, circle |-> FALSE, meters |-> 0]

\* the nil geojson.Object
NilObj ==
    [spatial |-> FALSE, empty |-> TRUE, min |-> <<0, 0>>, max |-> <<0, 0>>,
     npoints |-> 0, str |-> <<>>, circle |-> FALSE, meters |-> -1]

objIsSpatial(obj) == obj.spatial

\* rectangle tests of geometry.Rect
RectContains(amin, amax, bmin, bmax) ==
    /\ amin[1] <= bmin[1] /\ amin[2] <= bmin[2]
    /\ bmax[1] <= amax[1] /\ bmax[2] <= amax[2]

RectIntersects(amin, amax, bmin, bmax) ==
    /\ amin[1] <= bmax[1] /\ bmin[1] <= amax[1]
    /\ amin[2] <= bmax[2] /\ bmin[2] <= amax[2]

\* squared distance between two boxes, 0 when they overlap
AxisDist(alo, ahi, blo, bhi) ==
    IF bhi < alo THEN alo - bhi ELSE IF ahi < blo THEN blo - ahi ELSE 0

BoxDist(amin, amax, bmin, bmax) ==
    LET dx == AxisDist(amin[1], amax[1], bmin[1], bmax[1])
        dy == AxisDist(amin[2], amax[2], bmin[2], bmax[2])
    IN  dx * dx + dy * dy

\* target.Center(), the centre of the rectangle, and the squared distance from a
\* point to the farthest corner of a box
Center(obj) == <<(obj.min[1] + obj.max[1]) \div 2, (obj.min[2] + obj.max[2]) \div 2>>

CornerDist(p, bmin, bmax) ==
    LET dx == Max2(Abs(p[1] - bmin[1]), Abs(bmax[1] - p[1]))
        dy == Max2(Abs(p[2] - bmin[2]), Abs(bmax[2] - p[2]))
    IN  dx * dx + dy * dy

\* o.Within(q) and o.Intersects(q) for points, rectangles and, as q, circles;
\* a collection.String is within nothing and intersects nothing
ObjWithin(o, q) ==
    /\ o.spatial /\ ~o.empty /\ ~q.empty
    /\ IF q.circle THEN CornerDist(Center(q), o.min, o.max) <= q.meters * q.meters
       ELSE RectContains(q.min, q.max, o.min, o.max)

ObjIntersects(o, q) ==
    /\ o.spatial /\ ~o.empty /\ ~q.empty
    /\ IF q.circle THEN BoxDist(Center(q), Center(q), o.min, o.max) <= q.meters * q.meters
       ELSE RectIntersects(q.min, q.max, o.min, o.max)

(***************************************************************************)
(* The packed field codec.  A float64 is named by an integer: a whole      *)
(* number of magnitude at most maxInt29 by itself, and any other value by  *)
(* maxInt29 + k, where entry k of the table Floats gives it as             *)
(* (-1)^neg * m * 2^e with m odd.  Two names are equal exactly when the    *)
(* values are.  The table holds no whole number of magnitude at most       *)
(* maxInt29, no value that is subnormal in one of the three float formats, *)
(* and no mantissa of more than 30 bits.                                   *)
(***************************************************************************)
maxFieldBytes == 9
maxInt5 == 15
maxInt13 == 4095
maxInt21 == 1048575
maxInt29 == 268435455

Floats ==
    <<[neg |-> FALSE, m |-> 1, e |-> -2],             \* 0.25
      [neg |-> FALSE, m |-> 3, e |-> -2],             \* 0.75
      [neg |-> TRUE, m |-> 3, e |-> -1],              \* -1.5
      [neg |-> FALSE, m |-> 4097, e |-> -12],         \* 1 + 2^-12
      [neg |-> FALSE, m |-> 16777217, e |-> -24],     \* 1 + 2^-24
      [neg |-> FALSE, m |-> 1, e |-> 28],             \* maxInt29 + 1
      [neg |-> TRUE, m |-> 1, e |-> 28],              \* -(maxInt29 + 1)
      [neg |-> FALSE, m |-> 268435457, e |-> 0],      \* maxInt29 + 2
      [neg |-> FALSE, m |-> 1, e |-> 62],             \* 2^62
      [neg |-> TRUE, m |-> 1073741823, e |-> 33],     \* -(2^63 - 2^33)
      [neg |-> FALSE, m |-> 1, e |-> 63],             \* 2^63, math.MaxInt64 as a float64
      [neg |-> TRUE, m |-> 1, e |-> 63],              \* -2^63, math.MinInt64
      [neg |-> FALSE, m |-> 1, e |-> 200],            \* 2^200
      [neg |-> FALSE, m |-> 1073741823, e |-> 994]>>  \* (2^30 - 1) * 2^994

IsTabled(f) == f > maxInt29
Tabled(f) == Floats[f - maxInt29]

\* the name of the float64 r: its place in the table, the whole number
\* itself, or one past the table for any other value
FloatName(r) ==
    IF \E k \in DOMAIN Floats : Floats[k] = r
    THEN maxInt29 + (CHOOSE k \in DOMAIN Floats : Floats[k] = r)
    ELSE IF r.m = 0 THEN 0
    ELSE IF r.e >= 0 /\ r.e <= 28 /\ r.m <= maxInt29 \div Pow2(r.e)
         THEN (IF r.neg THEN -1 ELSE 1) * r.m * Pow2(r.e)
    ELSE maxInt29 + Len(Floats) + 1

\* the number of bits of n, the w low bits of n (most significant first),
\* and the number a sequence of bits stands for
RECURSIVE BitLen(_)
BitLen(n) == IF n = 0 THEN 0 ELSE 1 + BitLen(n \div 2)

RECURSIVE NatBits(_, _)
NatBits(n, w) == IF w = 0 THEN <<>> ELSE NatBits(n \div 2, w - 1) \o <<n % 2>>

RECURSIVE BitsNat(_)
BitsNat(bits) ==
    IF bits = <<>> THEN 0
    ELSE 2 * BitsNat(SubSeq(bits, 1, Len(bits) - 1)) + bits[Len(bits)]

\* f64 == float64(int64(f64)): r is a whole number in the range of int64.
\* (Outside that range the conversion's result is left to the build; the
\* test can then succeed only with a positive i64 above maxInt29, which
\* falls through to the float kinds as a failed test does.)
IsInt64(r) ==
    /\ r.e >= 0
    /\ BitLen(r.m) + r.e <= 63 \/ (r.neg /\ r.m = 1 /\ r.e = 63)

\* i64 *= -1 leaves math.MinInt64 as it is
NegateWraps(r) == r.neg /\ r.m = 1 /\ r.e = 63

\* f64 == float64(float32(f64)) and f32 == half.NewFloat16(f32).Float32():
\* the value has a normal representation in the narrower format
FitsFloat32(r) ==
    /\ BitLen(r.m) <= 24
    /\ r.e + BitLen(r.m) - 1 >= -126 /\ r.e + BitLen(r.m) - 1 <= 127

FitsFloat16(r) ==
    /\ BitLen(r.m) <= 11
    /\ r.e + BitLen(r.m) - 1 >= -14 /\ r.e + BitLen(r.m) - 1 <= 15

\* the IEEE 754 bits of r: sign, biased exponent, fraction
FloatBits(r, expBits, fracBits, bias) ==
    LET b == BitLen(r.m)
    IN  <<IF r.neg THEN 1 ELSE 0>> \o NatBits(r.e + b - 1 + bias, expBits)
            \o NatBits(r.m - Pow2(b - 1), b - 1)
            \o [k \in 1..(fracBits - (b - 1)) |-> 0]

\* the bytes a store through the unsafe pointer leaves in the slice (least
\* significant byte first), and the value a load through it finds there
FloatBytes(r, expBits, fracBits, bias) ==
    LET bits == FloatBits(r, expBits, fracBits, bias)
        n == Len(bits) \div 8
    IN  [k \in 1..n |-> BitsNat(SubSeq(bits, 8 * (n - k) + 1, 8 * (n - k) + 8))]

RECURSIVE BytesBits(_)
BytesBits(bytes) ==
    IF bytes = <<>> THEN <<>>
    ELSE BytesBits(SubSeq(bytes, 2, Len(bytes))) \o NatBits(bytes[1], 8)

RECURSIVE StripZeros(_)
StripZeros(bits) ==
    IF bits # <<>> /\ bits[Len(bits)] = 0 THEN StripZeros(SubSeq(bits, 1, Len(bits) - 1))
    ELSE bits

BytesFloat(bytes, expBits, fracBits, bias) ==
    LET bits == BytesBits(bytes)
        exp == BitsNat(SubSeq(bits, 2, 1 + expBits))
        frac == StripZeros(SubSeq(bits, 2 + expBits, 1 + expBits + fracBits))
    IN  IF exp = 0 /\ frac = <<>> THEN [neg |-> bits[1] = 1, m |-> 0, e |-> 0]
        ELSE [neg |-> bits[1] = 1, m |-> BitsNat(<<1>> \o frac),
              e |-> exp - bias - Len(frac)]

\* the bytes appendPacked appends for a value of the table
TabledBytes(r) ==
    IF IsInt64(r) /\ NegateWraps(r) THEN <<0 * 32 + 16 + 0>>
    ELSE IF FitsFloat32(r) THEN
        IF FitsFloat16(r) THEN <<4 * 32>> \o FloatBytes(r, 5, 10, 15)
        ELSE <<5 * 32>> \o FloatBytes(r, 8, 23, 127)
    ELSE <<6 * 32>> \o FloatBytes(r, 11, 52, 1023)

\* an appendPacked whose size tests leave the largest value of each kind to
\* the next kind
PackedBytesBelowMax(f) ==
    LET i64 == Abs(f)
        signed == IF f < 0 THEN 16 ELSE 0
    IN  IF f = 0 THEN <<0>>
        ELSE IF IsTabled(f) THEN TabledBytes(Tabled(f))
        ELSE IF i64 < maxInt5 THEN <<0 * 32 + signed + i64>>
        ELSE IF i64 < maxInt13 THEN
            <<1 * 32 + signed + (i64 \div 256), i64 % 256>>
        ELSE IF i64 < maxInt21 THEN
            <<2 * 32 + signed + (i64 \div 65536), (i64 \div 256) % 256, i64 % 256>>
        ELSE
            <<3 * 32 + signed + (i64 \div 16777216), (i64 \div 65536) % 256,
              (i64 \div 256) % 256, i64 % 256>>

\* the bytes appendPacked appends for the value f
PackedBytes(f) ==
    LET i64 == Abs(f)
        signed == IF f < 0 THEN 16 ELSE 0
    IN  IF f = 0 THEN <<0>>
        ELSE IF IsTabled(f) THEN TabledBytes(Tabled(f))
        ELSE IF i64 <= maxInt5 THEN <<0 * 32 + signed + i64>>
        ELSE IF i64 <= maxInt13 THEN
            <<1 * 32 + signed + (i64 \div 256), i64 % 256>>
        ELSE IF i64 <= maxInt21 THEN
            <<2 * 32 + signed + (i64 \div 65536), (i64 \div 256) % 256, i64 % 256>>
        ELSE
            <<3 * 32 + signed + (i64 \div 16777216), (i64 \div 65536) % 256,
              (i64 \div 256) % 256, i64 % 256>>

appendPacked(dst, f64) == dst \o PackedBytes(f64)

\* the encoded size of the value whose header byte is b
PackedSize(b) ==
    LET kind == b \div 32
    IN  IF kind < 4 THEN kind + 1
        ELSE IF kind = 4 THEN 3
        ELSE IF kind = 5 THEN 5
        ELSE 9

\* the suffix data[i:] of a Go slice, i counted from 0
SliceFrom(data, i) == SubSeq(data, i + 1, Len(data))
\* the prefix data[:n]
SliceTo(data, n) == SubSeq(data, 1, n)

RECURSIVE skipPackedLoop(_, _, _, _)
skipPackedLoop(data, count, i, read) ==
    IF i < Len(data) THEN
        IF read >= count THEN [out |-> SliceFrom(data, i), read |-> read]
        ELSE skipPackedLoop(data, count, i + PackedSize(data[i + 1]), read + 1)
    ELSE [out |-> <<>>, read |-> read]

skipPacked(data, count) == skipPackedLoop(data, count, 0, 0)

readPacked(data) ==
    IF Len(data) = 0 THEN [rest |-> <<>>, value |-> 0]
    ELSE IF data[1] = 0 THEN [rest |-> SliceFrom(data, 1), value |-> 0]
    ELSE
        LET kind == data[1] \div 32
            lo == data[1] % 16
            mag == IF kind = 0 THEN lo
                   ELSE IF kind = 1 THEN lo * 256 + data[2]
                   ELSE IF kind = 2 THEN lo * 65536 + data[2] * 256 + data[3]
                   ELSE lo * 16777216 + data[2] * 65536 + data[3] * 256 + data[4]
            value == IF (data[1] \div 16) % 2 = 1 THEN -mag ELSE mag
        \* kinds 0..3, then the float kinds 4, 5 and 6 (kind 7 panics; no
        \* value is encoded with it)
        IN  IF kind < 4 THEN [rest |-> SliceFrom(data, kind + 1), value |-> value]
            ELSE IF kind = 4 THEN
                [rest |-> SliceFrom(data, 3),
                 value |-> FloatName(BytesFloat(SubSeq(data, 2, 3), 5, 10, 15))]
            ELSE IF kind = 5 THEN
                [rest |-> SliceFrom(data, 5),
                 value |-> FloatName(BytesFloat(SubSeq(data, 2, 5), 8, 23, 127))]
            ELSE [rest |-> SliceFrom(data, 9),
                  value |-> FloatName(BytesFloat(SubSeq(data, 2, 9), 11, 52, 1023))]

RECURSIVE packedGenerateFieldBytesFrom(_, _)
packedGenerateFieldBytesFrom(vals, i) ==
    IF i > Len(vals) THEN <<>>
    ELSE PackedBytes(vals[i]) \o packedGenerateFieldBytesFrom(vals, i + 1)

packedGenerateFieldBytes(vals) == packedGenerateFieldBytesFrom(vals, 1)

Zeros(n) == [k \in 1..n |-> 0]

(***************************************************************************)
(* Items.  fdata is the fields section of the item's data block: a         *)
(* sequence of bytes for a packed item, a sequence of 8-byte float slots   *)
(* for an unpacked one.  The id section follows it in the block.           *)
(***************************************************************************)
NoItem == [id |-> <<>>, obj |-> NilObj, isPacked |-> FALSE, fdata |-> <<>>, live |-> FALSE]

New(id, obj, isPacked) ==
    [id |-> id, obj |-> obj, isPacked |-> isPacked, fdata |-> <<>>, live |-> TRUE]

fieldsDataSize(item) ==
    IF item.isPacked THEN Len(item.fdata) ELSE 8 * Len(item.fdata)

idDataSize(item) == Len(item.id)

HasFields(item) == item.live /\ fieldsDataSize(item) > 0

WeightAndPoints(item) ==
    LET pts == IF objIsSpatial(item.obj) THEN item.obj.npoints ELSE 0
        w == IF objIsSpatial(item.obj) THEN pts * 16 ELSE Len(item.obj.str)
    IN  [weight |-> w + fieldsDataSize(item) + idDataSize(item), points |-> pts]

\* Item.Less: by value string, then by id
ItemLess(a, b) ==
    IF StrLess(a.obj.str, b.obj.str) THEN TRUE
    ELSE IF StrLess(b.obj.str, a.obj.str) THEN FALSE
    ELSE StrLess(a.id, b.id)

packedSetField(item, idx, value) ==
    LET headBytes0 == item.fdata
        sk == skipPacked(headBytes0, idx)
        found == Len(sk.out) > 0
        rd == readPacked(sk.out)
        headBytes == IF found THEN SliceTo(headBytes0, Len(headBytes0) - Len(sk.out))
                     ELSE headBytes0
        tailBytes == IF found THEN rd.rest ELSE <<>>
        blankSpace == IF found THEN 0 ELSE idx - sk.read
        oldLen == IF found THEN Len(sk.out) - Len(tailBytes) ELSE 0
        newFieldBytes == appendPacked(<<>>, value)
    IN  IF ~found /\ value = 0 THEN [item |-> item, updated |-> FALSE]
        ELSE IF found /\ rd.value = value THEN [item |-> item, updated |-> FALSE]
        ELSE IF Len(newFieldBytes) = oldLen THEN
            [item |-> [item EXCEPT !.fdata = headBytes \o newFieldBytes \o tailBytes],
             updated |-> TRUE]
        ELSE
            [item |-> [item EXCEPT !.fdata =
                          headBytes \o Zeros(blankSpace) \o newFieldBytes \o tailBytes],
             updated |-> TRUE]

RECURSIVE packedReadN(_, _)
packedReadN(data, n) ==
    IF n <= 0 THEN <<>>
    ELSE LET rd == readPacked(data)
         IN  <<rd.value>> \o packedReadN(rd.rest, n - 1)

RECURSIVE packedReadAll(_)
packedReadAll(data) ==
    IF Len(data) = 0 THEN <<>>
    ELSE LET rd == readPacked(data)
         IN  <<rd.value>> \o packedReadAll(rd.rest)

\* the values packedForEachField passes to an iter that always returns true
packedForEachField(item, count) ==
    IF count < 0 THEN packedReadAll(item.fdata) ELSE packedReadN(item.fdata, count)

packedGetField(item, idx) ==
    LET all == packedForEachField(item, -1)
    IN  IF idx < Len(all) THEN all[idx + 1] ELSE 0

unpackedGenerateFieldBytes(vals) == vals

unpackedSetField(item, idx, value) ==
    LET numFields == fieldsDataSize(item) \div 8
    IN  IF idx < numFields THEN
            IF item.fdata[idx + 1] = value THEN [item |-> item, updated |-> FALSE]
            ELSE [item |-> [item EXCEPT !.fdata[idx + 1] = value], updated |-> TRUE]
        ELSE IF value = 0 THEN [item |-> item, updated |-> FALSE]
        ELSE [item |-> [item EXCEPT !.fdata =
                           [k \in 1..(idx + 1) |->
                               IF k <= numFields THEN item.fdata[k]
                               ELSE IF k = idx + 1 THEN value ELSE 0]],
              updated |-> TRUE]

unpackedForEachField(item, count) ==
    LET n == IF count < 0 THEN Len(item.fdata) ELSE count
    IN  [k \in 1..n |-> IF k <= Len(item.fdata) THEN item.fdata[k] ELSE 0]

unpackedGetField(item, idx) ==
    LET numFields == fieldsDataSize(item) \div 8
    IN  IF idx < numFields THEN item.fdata[idx + 1] ELSE 0

ItemSetField(item, idx, value) ==
    IF ~item.live THEN [item |-> item, updated |-> FALSE]
    ELSE IF item.isPacked THEN packedSetField(item, idx, value)
    ELSE unpackedSetField(item, idx, value)

ForEachField(item, count) ==
    IF ~item.live THEN <<>>
    ELSE IF item.isPacked THEN packedForEachField(item, count)
    ELSE unpackedForEachField(item, count)

GetField(item, idx) ==
    IF ~item.live THEN 0
    ELSE IF item.isPacked THEN packedGetField(item, idx)
    ELSE unpackedGetField(item, idx)

\* The item of the package's version without packing (fields always kept as
\* 8-byte floats, no packed flag): SetField grows the fields to the index
\* written whatever the value is.
FlatSetField(item, idx, value) ==
    LET numFields == Len(item.fdata)
    IN  IF idx < numFields THEN
            IF item.fdata[idx + 1] = value THEN [item |-> item, updated |-> FALSE]
            ELSE [item |-> [item EXCEPT !.fdata[idx + 1] = value], updated |-> TRUE]
        ELSE [item |-> [item EXCEPT !.fdata =
                           [k \in 1..(idx + 1) |->
                               IF k <= numFields THEN item.fdata[k]
                               ELSE IF k = idx + 1 THEN value ELSE 0]],
              updated |-> TRUE]

FlatGetField(item, idx) ==
    IF ~item.live THEN 0
    ELSE IF idx < Len(item.fdata) THEN item.fdata[idx + 1] ELSE 0

\* CopyOverFields of the version without packing: from.fields() or from
FlatCopyOverFields(item, vals) == [item EXCEPT !.fdata = vals]

\* CopyOverFields(from) with from a []float64
CopyOverFieldsValues(item, vals) ==
    IF ~item.live THEN item
    ELSE [item EXCEPT !.fdata =
             IF item.isPacked THEN packedGenerateFieldBytes(vals)
             ELSE unpackedGenerateFieldBytes(vals)]

\* CopyOverFields(from) with from an *Item
CopyOverFieldsItem(item, from) ==
    IF ~item.live THEN item
    ELSE IF item.isPacked = from.isPacked THEN [item EXCEPT !.fdata = from.fdata]
    ELSE CopyOverFieldsValues(item, ForEachField(item, -1))

(***************************************************************************)
(* The item's header and data block.  head[0] keeps the two flags in bits  *)
(* 31 and 30 and the byte length of the fields section in its low 30       *)
(* bits: top is head[0] >> 30 and low is head[0] & 0x3FFFFFFF.  The data   *)
(* block holds the fields section and then the id.  A block is kept as     *)
(* its length and the bytes that are not zero (offsets count from 0), as   *)
(* make gives a block of zeros.                                            *)
(***************************************************************************)
fieldsLenBits == 30

makeBytes(n) == [len |-> n, nz |-> <<>>]

ByteAt(b, k) == IF k \in DOMAIN b.nz THEN b.nz[k] ELSE 0

\* the bytes b[from:to] as a sequence
BytesOf(b, from, to) == [k \in 1..(to - from) |-> ByteAt(b, from + k - 1)]

\* copy(dst[off:], src) for a sequence src
copyBytes(dst, off, src) ==
    LET n == Min2(Len(src), Max2(dst.len - off, 0))
        at(k) == IF k >= off /\ k < off + n THEN src[k - off + 1] ELSE ByteAt(dst, k)
        keep == {k \in DOMAIN dst.nz \cup off..(off + n - 1) : at(k) # 0}
    IN  [len |-> dst.len, nz |-> [k \in keep |-> at(k)]]

\* the float64 a name stands for, and its eight bytes in memory
RECURSIVE OddPart(_)
OddPart(n) == IF n % 2 = 0 THEN OddPart(n \div 2) ELSE n

RECURSIVE TwoPart(_)
TwoPart(n) == IF n % 2 = 0 THEN 1 + TwoPart(n \div 2) ELSE 0

FloatOf(f) ==
    IF IsTabled(f) THEN Tabled(f)
    ELSE [neg |-> f < 0, m |-> OddPart(Abs(f)), e |-> TwoPart(Abs(f))]

Float64Bytes(f) == IF f = 0 THEN Zeros(8) ELSE FloatBytes(FloatOf(f), 11, 52, 1023)

RECURSIVE floatsToBytes(_)
floatsToBytes(vals) ==
    IF vals = <<>> THEN <<>>
    ELSE Float64Bytes(vals[1]) \o floatsToBytes(SubSeq(vals, 2, Len(vals)))

RECURSIVE bytesToFloats(_)
bytesToFloats(bytes) ==
    IF Len(bytes) < 8 THEN <<>>
    ELSE <<FloatName(BytesFloat(SubSeq(bytes, 1, 8), 11, 52, 1023))>>
            \o bytesToFloats(SubSeq(bytes, 9, Len(bytes)))

\* new(objItem) or new(pointItem); setIsPoint, setIsPacked, setIDDataSize; the
\* data pointer set to the bytes of id
blockNew(id, obj, isPacked) ==
    [top |-> (IF obj.npoints = 1 THEN 2 ELSE 0) + (IF isPacked THEN 1 ELSE 0),
     low |-> 0, idLen |-> Len(id), obj |-> obj,
     data |-> copyBytes(makeBytes(Len(id)), 0, id)]

blockIsPoint(it) == it.top \div 2 = 1
blockIsPacked(it) == it.top % 2 = 1
blockFieldsDataSize(it) == it.low
blockIdDataSize(it) == it.idLen

\* head[0] = head[0]>>30<<30 | uint32(len)
BitOr2(a, b) == 2 * Max2(a \div 2, b \div 2) + Max2(a % 2, b % 2)

blockSetFieldsDataSize(it, len) ==
    [it EXCEPT !.top = BitOr2(it.top, (len \div Pow2(fieldsLenBits)) % 4),
               !.low = len % Pow2(fieldsLenBits)]

\* ID(): the idDataSize bytes at data + fieldsDataSize
blockID(it) == BytesOf(it.data, it.low, it.low + it.idLen)

blockFieldsBytes(it) == BytesOf(it.data, 0, it.low)
blockDataBytes(it) == BytesOf(it.data, 0, it.low + it.idLen)

\* Obj(): the pt of a pointItem or the obj of an objItem
blockObj(it) == it.obj

blockForEachField(it) ==
    IF blockIsPacked(it) THEN packedReadAll(blockFieldsBytes(it))
    ELSE bytesToFloats(blockFieldsBytes(it))

blockGetFieldAt(it, idx) ==
    FloatName(BytesFloat(BytesOf(it.data, idx * 8, idx * 8 + 8), 11, 52, 1023))

blockUnpackedSetField(it, idx, value) ==
    LET numFields == blockFieldsDataSize(it) \div 8
        oldBytes == blockDataBytes(it)
        newData == copyBytes(copyBytes(makeBytes((idx + 1) * 8 + blockIdDataSize(it)), 0,
                                       SliceTo(oldBytes, blockFieldsDataSize(it))),
                             (idx + 1) * 8, SliceFrom(oldBytes, blockFieldsDataSize(it)))
        grown == [blockSetFieldsDataSize(it, (idx + 1) * 8) EXCEPT !.data = newData]
    IN  IF idx < numFields THEN
            IF blockGetFieldAt(it, idx) = value THEN [it |-> it, updated |-> FALSE]
            ELSE [it |-> [it EXCEPT !.data = copyBytes(it.data, idx * 8, Float64Bytes(value))],
                  updated |-> TRUE]
        ELSE IF value = 0 THEN [it |-> it, updated |-> FALSE]
        ELSE [it |-> [grown EXCEPT !.data = copyBytes(newData, idx * 8, Float64Bytes(value))],
              updated |-> TRUE]

blockPackedSetField(it, idx, value) ==
    LET headBytes0 == blockFieldsBytes(it)
        sk == skipPacked(headBytes0, idx)
        found == Len(sk.out) > 0
        rd == readPacked(sk.out)
        headBytes == IF found THEN SliceTo(headBytes0, Len(headBytes0) - Len(sk.out))
                     ELSE headBytes0
        tailBytes == IF found THEN rd.rest ELSE <<>>
        blankSpace == IF found THEN 0 ELSE idx - sk.read
        oldLen == IF found THEN Len(sk.out) - Len(tailBytes) ELSE 0
        newFieldBytes == appendPacked(<<>>, value)
        id == blockID(it)
        total == Len(headBytes) + blankSpace + Len(newFieldBytes) + Len(tailBytes) + Len(id)
        nbytes == copyBytes(copyBytes(copyBytes(copyBytes(makeBytes(total),
                      0, headBytes),
                      Len(headBytes) + blankSpace, newFieldBytes),
                      Len(headBytes) + blankSpace + Len(newFieldBytes), tailBytes),
                      Len(headBytes) + blankSpace + Len(newFieldBytes) + Len(tailBytes), id)
    IN  IF ~found /\ value = 0 THEN [it |-> it, updated |-> FALSE]
        ELSE IF found /\ rd.value = value THEN [it |-> it, updated |-> FALSE]
        ELSE IF Len(newFieldBytes) = oldLen THEN
            [it |-> [it EXCEPT !.data = copyBytes(it.data, Len(headBytes), newFieldBytes)],
             updated |-> TRUE]
        ELSE [it |-> [blockSetFieldsDataSize(it, total - Len(id)) EXCEPT !.data = nbytes],
              updated |-> TRUE]

blockSetField(it, idx, value) ==
    IF blockIsPacked(it) THEN blockPackedSetField(it, idx, value)
    ELSE blockUnpackedSetField(it, idx, value)

\* the tail of CopyOverFields: newData is fieldBytes and then the id
blockSetFieldBytes(it, fieldBytes) ==
    LET id == blockID(it)
        newData == copyBytes(copyBytes(makeBytes(Len(fieldBytes) + Len(id)), 0, fieldBytes),
                             Len(fieldBytes), id)
    IN  [blockSetFieldsDataSize(it, Len(fieldBytes)) EXCEPT !.data = newData]

blockCopyOverFieldsValues(it, vals) ==
    blockSetFieldBytes(it, IF blockIsPacked(it) THEN packedGenerateFieldBytes(vals)
                           ELSE floatsToBytes(vals))

blockCopyOverFieldsItem(it, from) ==
    IF blockIsPacked(it) = blockIsPacked(from)
    THEN blockSetFieldBytes(it, blockFieldsBytes(from))
    ELSE blockCopyOverFieldsValues(it, blockForEachField(it))

(***************************************************************************)
(* The identifier B-tree (package btree).  A node keeps its items and      *)
(* children in fixed arrays indexed from 0; a nil child is NilNode and a   *)
(* nil item is address 0.  h is the heap the item pointers point into.     *)
(***************************************************************************)
maxItems == 31
minItems == (maxItems * 40) \div 100

NilNode == [numItems |-> -1, items |-> <<>>, children |-> <<>>]
IsNilNode(n) == n.numItems < 0

\* new(node)
NewNode ==
    [numItems |-> 0,
     items |-> [k \in 0..(maxItems - 1) |-> 0],
     children |-> [k \in 0..maxItems |-> NilNode]]

\* the zero BTree
NewBTree == [height |-> 0, root |-> NilNode, length |-> 0]

\* Go's copy(dst[a:], src[b:c]) on arrays; dstLen is len(dst)
CopyArr(dst, a, src, b, c, dstLen) ==
    LET n == Min2(dstLen - a, c - b)
    IN  [k \in DOMAIN dst |-> IF k >= a /\ k - a < n THEN src[b + (k - a)] ELSE dst[k]]

RECURSIVE findLoop(_, _, _, _, _)
findLoop(h, n, key, i, j) ==
    IF i < j THEN
        LET m == i + (j - i) \div 2
        IN  IF StrLeq(h[n.items[m]].id, key) THEN findLoop(h, n, key, m + 1, j)
            ELSE findLoop(h, n, key, i, m)
    ELSE i

find(h, n, key) ==
    LET i == findLoop(h, n, key, 0, n.numItems)
    IN  IF i > 0 /\ StrLeq(key, h[n.items[i - 1]].id)
        THEN [index |-> i - 1, found |-> TRUE]
        ELSE [index |-> i, found |-> FALSE]

\* node.split: n keeps the left half, the result carries the right half and the median
split(n, height) ==
    LET half == maxItems \div 2
        right == [numItems |-> half,
                  items |-> CopyArr(NewNode.items, 0, n.items, half + 1, maxItems, half),
                  children |-> IF height > 0
                               THEN CopyArr(NewNode.children, 0, n.children, half + 1,
                                            maxItems + 1, half + 1)
                               ELSE NewNode.children]
        left == [numItems |-> half,
                 items |-> [k \in 0..(maxItems - 1) |-> IF k >= half THEN 0 ELSE n.items[k]],
                 children |-> IF height > 0
                              THEN [k \in 0..maxItems |->
                                       IF k >= half + 1 THEN NilNode ELSE n.children[k]]
                              ELSE n.children]
    IN  [left |-> left, right |-> right, median |-> n.items[half]]

RECURSIVE nodeSet(_, _, _, _)
\* node.set after the full child i, holding the new item, was split into sp
nodeSetSplit(n1, i, sp, prev) ==
    LET ch0 == [n1.children EXCEPT ![i] = sp.left]
        ch1 == CopyArr(ch0, i + 1, ch0, i, maxItems + 1, maxItems + 1)
        it1 == CopyArr(n1.items, i + 1, n1.items, i, maxItems, maxItems)
    IN  [node |-> [numItems |-> n1.numItems + 1,
                   items |-> [it1 EXCEPT ![i] = sp.median],
                   children |-> [ch1 EXCEPT ![i + 1] = sp.right]],
         prev |-> prev, replaced |-> FALSE]

\* node.set after the set in child i returned r
nodeSetChild(n, i, r, height) ==
    IF r.replaced THEN
        [node |-> [n EXCEPT !.children[i] = r.node], prev |-> r.prev, replaced |-> TRUE]
    ELSE IF r.node.numItems = maxItems THEN
        nodeSetSplit([n EXCEPT !.children[i] = r.node], i, split(r.node, height - 1),
                     r.prev)
    ELSE [node |-> [n EXCEPT !.children[i] = r.node], prev |-> r.prev,
          replaced |-> FALSE]

\* node.set that finds the id and returns the item without storing the new one
nodeSetKeepsOld(h, n, newItem, height, f) ==
    IF f.found THEN [node |-> n, prev |-> n.items[f.index], replaced |-> TRUE]
    ELSE IF height = 0 THEN
        [node |-> [n EXCEPT
                     !.items = [k \in 0..(maxItems - 1) |->
                                   IF k > f.index /\ k <= n.numItems THEN n.items[k - 1]
                                   ELSE IF k = f.index THEN newItem ELSE n.items[k]],
                     !.numItems = n.numItems + 1],
         prev |-> 0, replaced |-> FALSE]
    ELSE nodeSetChild(n, f.index,
                      nodeSet(h, n.children[f.index], newItem, height - 1), height)

\* node.set after n.find returned f
nodeSetAt(h, n, newItem, height, f) ==
    IF f.found THEN
        [node |-> [n EXCEPT !.items[f.index] = newItem], prev |-> n.items[f.index],
         replaced |-> TRUE]
    ELSE IF height = 0 THEN
        [node |-> [n EXCEPT
                     !.items = [k \in 0..(maxItems - 1) |->
                                   IF k > f.index /\ k <= n.numItems THEN n.items[k - 1]
                                   ELSE IF k = f.index THEN newItem ELSE n.items[k]],
                     !.numItems = n.numItems + 1],
         prev |-> 0, replaced |-> FALSE]
    ELSE nodeSetChild(n, f.index,
                      nodeSet(h, n.children[f.index], newItem, height - 1), height)

nodeSet(h, n, newItem, height) ==
    nodeSetAt(h, n, newItem, height, find(h, n, h[newItem].id))

\* BTree.Set after the full root, holding the new item, was split into sp
BTreeSetSplit(tr, sp, prev) ==
    [tree |-> [height |-> tr.height + 1,
               root |-> [NewNode EXCEPT !.children[0] = sp.left,
                                        !.items[0] = sp.median,
                                        !.children[1] = sp.right,
                                        !.numItems = 1],
               length |-> tr.length + 1],
     prev |-> prev, replaced |-> FALSE]

\* a BTree.Set that counts a replaced item as a new one
BTreeSetRootAlwaysGrows(tr, r) ==
    IF r.replaced THEN
        [tree |-> [tr EXCEPT !.root = r.node, !.length = tr.length + 1],
         prev |-> r.prev, replaced |-> TRUE]
    ELSE IF r.node.numItems = maxItems THEN
        BTreeSetSplit(tr, split(r.node, tr.height), r.prev)
    ELSE [tree |-> [tr EXCEPT !.root = r.node, !.length = tr.length + 1],
          prev |-> r.prev, replaced |-> FALSE]

\* BTree.Set after the set in the root returned r
BTreeSetRoot(tr, r) ==
    IF r.replaced THEN
        [tree |-> [tr EXCEPT !.root = r.node], prev |-> r.prev, replaced |-> TRUE]
    ELSE IF r.node.numItems = maxItems THEN
        BTreeSetSplit(tr, split(r.node, tr.height), r.prev)
    ELSE [tree |-> [tr EXCEPT !.root = r.node, !.length = tr.length + 1],
          prev |-> r.prev, replaced |-> FALSE]

\* BTree.Set: the tree after the call, the previous item and whether one was replaced
BTreeSet(h, tr, item) ==
    IF IsNilNode(tr.root) THEN
        [tree |-> [height |-> tr.height,
                   root |-> [NewNode EXCEPT !.items[0] = item, !.numItems = 1],
                   length |-> 1],
         prev |-> 0, replaced |-> FALSE]
    ELSE BTreeSetRoot(tr, nodeSet(h, tr.root, item, tr.height))

RECURSIVE nodeGet(_, _, _, _)
\* node.get after n.find returned f
nodeGetAt(h, n, key, height, f) ==
    IF f.found THEN [item |-> n.items[f.index], gotten |-> TRUE]
    ELSE IF height = 0 THEN [item |-> 0, gotten |-> FALSE]
    ELSE nodeGet(h, n.children[f.index], key, height - 1)

nodeGet(h, n, key, height) == nodeGetAt(h, n, key, height, find(h, n, key))

BTreeGet(h, tr, key) ==
    IF IsNilNode(tr.root) THEN [item |-> 0, gotten |-> FALSE]
    ELSE nodeGet(h, tr.root, key, tr.height)

BTreeLen(tr) == tr.length

\* the rebalancing at the end of node.delete: child i of n may have fallen
\* below minItems
rebalance(n, i0, height) ==
    IF n.children[i0].numItems >= minItems THEN n
    ELSE
        LET i == IF i0 = n.numItems THEN i0 - 1 ELSE i0
            L == n.children[i]
            R == n.children[i + 1]
        IN  IF L.numItems + R.numItems + 1 < maxItems THEN
                \* merge left + item + right
                LET li0 == [L.items EXCEPT ![L.numItems] = n.items[i]]
                    li1 == CopyArr(li0, L.numItems + 1, R.items, 0, R.numItems, maxItems)
                    lc1 == IF height > 1
                           THEN CopyArr(L.children, L.numItems + 1, R.children, 0,
                                        R.numItems + 1, maxItems + 1)
                           ELSE L.children
                    L1 == [numItems |-> L.numItems + R.numItems + 1,
                           items |-> li1, children |-> lc1]
                    ch0 == [n.children EXCEPT ![i] = L1]
                    it1 == CopyArr(n.items, i, n.items, i + 1, n.numItems, maxItems)
                    ch1 == CopyArr(ch0, i + 1, ch0, i + 2, n.numItems + 1, maxItems + 1)
                IN  [numItems |-> n.numItems - 1,
                     items |-> [it1 EXCEPT ![n.numItems] = 0],
                     children |-> [ch1 EXCEPT ![n.numItems + 1] = NilNode]]
            ELSE IF L.numItems > R.numItems THEN
                \* move left -> right
                LET ri0 == CopyArr(R.items, 1, R.items, 0, R.numItems, maxItems)
                    rc0 == IF height > 1
                           THEN CopyArr(R.children, 1, R.children, 0, R.numItems + 1,
                                        maxItems + 1)
                           ELSE R.children
                    ri1 == [ri0 EXCEPT ![0] = n.items[i]]
                    rc1 == IF height > 1
                           THEN [rc0 EXCEPT ![0] = L.children[L.numItems]]
                           ELSE rc0
                    R1 == [numItems |-> R.numItems + 1, items |-> ri1, children |-> rc1]
                    L1 == [numItems |-> L.numItems - 1,
                           items |-> [L.items EXCEPT ![L.numItems - 1] = 0],
                           children |-> IF height > 1
                                        THEN [L.children EXCEPT ![L.numItems] = NilNode]
                                        ELSE L.children]
                IN  [n EXCEPT !.items[i] = L.items[L.numItems - 1],
                              !.children[i] = L1,
                              !.children[i + 1] = R1]
            ELSE
                \* move right -> left
                LET L1 == [numItems |-> L.numItems + 1,
                           items |-> [L.items EXCEPT ![L.numItems] = n.items[i]],
                           children |-> IF height > 1
                                        THEN [L.children EXCEPT
                                                 ![L.numItems + 1] = R.children[0]]
                                        ELSE L.children]
                    R1 == [numItems |-> R.numItems - 1,
                           items |-> CopyArr(R.items, 0, R.items, 1, R.numItems, maxItems),
                           children |-> IF height > 1
                                        THEN CopyArr(R.children, 0, R.children, 1,
                                                     R.numItems + 1, maxItems + 1)
                                        ELSE R.children]
                IN  [n EXCEPT !.items[i] = R.items[0],
                              !.children[i] = L1,
                              !.children[i + 1] = R1]

RECURSIVE nodeDelete(_, _, _, _, _)
\* node.delete after the delete in child i returned r
nodeDeleteChild(n, i, r, height) ==
    IF ~r.deleted
    THEN [node |-> [n EXCEPT !.children[i] = r.node], prev |-> r.prev, deleted |-> FALSE]
    ELSE [node |-> rebalance([n EXCEPT !.children[i] = r.node], i, height),
          prev |-> r.prev, deleted |-> TRUE]

\* node.delete of the item i of an inner node: the maximum of child i, which
\* the delete in the child returned in r, takes its place
nodeDeleteSwap(n, i, r, height) ==
    [node |-> rebalance([n EXCEPT !.children[i] = r.node, !.items[i] = r.prev], i, height),
     prev |-> n.items[i], deleted |-> TRUE]

\* node.delete with i, found as set at its start
nodeDeleteAt(h, n, max, key, height, i, found) ==
    IF height = 0 THEN
        IF found THEN
            [node |-> [numItems |-> n.numItems - 1,
                       items |-> [CopyArr(n.items, i, n.items, i + 1, n.numItems, maxItems)
                                     EXCEPT ![n.numItems - 1] = 0],
                       children |-> [n.children EXCEPT ![n.numItems] = NilNode]],
             prev |-> n.items[i], deleted |-> TRUE]
        ELSE [node |-> n, prev |-> 0, deleted |-> FALSE]
    ELSE IF found /\ max THEN
        nodeDeleteChild(n, i + 1,
                        nodeDelete(h, n.children[i + 1], TRUE, <<>>, height - 1), height)
    ELSE IF found THEN
        nodeDeleteSwap(n, i, nodeDelete(h, n.children[i], TRUE, <<>>, height - 1), height)
    ELSE
        nodeDeleteChild(n, i, nodeDelete(h, n.children[i], max, key, height - 1), height)

\* the i, found of n.find
nodeDeleteFind(h, n, max, key, height, f) ==
    nodeDeleteAt(h, n, max, key, height, f.index, f.found)

nodeDelete(h, n, max, key, height) ==
    IF max THEN nodeDeleteAt(h, n, max, key, height, n.numItems - 1, TRUE)
    ELSE nodeDeleteFind(h, n, max, key, height, find(h, n, key))

\* BTree.Delete after the delete in the root returned r
BTreeDeleteRoot(tr, r) ==
    IF ~r.deleted THEN [tree |-> [tr EXCEPT !.root = r.node], prev |-> 0, deleted |-> FALSE]
    ELSE IF tr.length - 1 = 0 THEN
        [tree |-> [height |-> 0, root |-> NilNode, length |-> 0],
         prev |-> r.prev, deleted |-> TRUE]
    ELSE [tree |-> [height |-> IF r.node.numItems = 0 THEN tr.height - 1 ELSE tr.height,
                    root |-> IF r.node.numItems = 0 THEN r.node.children[0] ELSE r.node,
                    length |-> tr.length - 1],
          prev |-> r.prev, deleted |-> TRUE]

\* BTree.Delete: the tree after the call, the deleted item and whether one was deleted
BTreeDelete(h, tr, key) ==
    IF IsNilNode(tr.root) THEN [tree |-> tr, prev |-> 0, deleted |-> FALSE]
    ELSE BTreeDeleteRoot(tr, nodeDelete(h, tr.root, FALSE, key, tr.height))

(***************************************************************************)
(* Iteration.  A query's closure and the variables it captures are the     *)
(* record st: kind names the closure, count/offset/keepon are its captured *)
(* variables, steps lists the arguments of the cursor's Step calls, yields *)
(* the counts at which runtime.Gosched ran, out the ids handed to the      *)
(* user's callback, in order, unpassed the ids for which the closure made  *)
(* its cursor step and returned without calling the user's callback.  The  *)
(* user's callback returns false exactly on the ids in stop.  With         *)
(* sparse > 0, matches is the seen-set of geoSparse and alive the variable *)
(* of that name in the leaf of geoSparseInner.                             *)
(***************************************************************************)
yieldStep == 255

NewIter(kind, desc, endk, qobj, cursor, offset, stop) ==
    [kind |-> kind, desc |-> desc, endk |-> endk, qobj |-> qobj,
     cursor |-> cursor, offset |-> offset, stop |-> stop,
     count |-> 0, steps |-> <<>>, yields |-> <<>>, out |-> <<>>, unpassed |-> <<>>,
     sparse |-> FALSE, matches |-> {}, alive |-> TRUE,
     keepon |-> TRUE, ret |-> TRUE]

\* the user's iterator(id, obj, fields)
UserIter(st, item) ==
    [st EXCEPT !.out = Append(@, item.id), !.ret = (item.id \notin st.stop)]

\* the head of a closure that skips one item fewer than the offset
IterHeadSkipsLess(st) ==
    LET c1 == st.count + 1
    IN  IF c1 < st.offset THEN [st |-> [st EXCEPT !.count = c1, !.ret = TRUE], skip |-> TRUE]
        ELSE [st |-> [st EXCEPT !.count = c1,
                                !.yields = IF c1 % (yieldStep + 1) = yieldStep
                                           THEN Append(@, c1) ELSE @,
                                !.steps = IF st.cursor THEN Append(@, 1) ELSE @],
              skip |-> FALSE]

\* count++, the offset test, the yield and cursor.Step(1): the common head
\* of every query closure; skip tells whether the closure returned early
IterHead(st) ==
    LET c1 == st.count + 1
    IN  IF c1 <= st.offset THEN [st |-> [st EXCEPT !.count = c1, !.ret = TRUE], skip |-> TRUE]
        ELSE [st |-> [st EXCEPT !.count = c1,
                                !.yields = IF c1 % (yieldStep + 1) = yieldStep
                                           THEN Append(@, c1) ELSE @,
                                !.steps = IF st.cursor THEN Append(@, 1) ELSE @],
              skip |-> FALSE]

\* the closure of Scan, ScanGreaterOrEqual, SearchValues, SearchValuesRange
ScanIter(st, item) ==
    LET hd == IterHead(st)
        u == UserIter(hd.st, item)
    IN  IF hd.skip THEN hd.st ELSE [u EXCEPT !.keepon = u.ret]

\* a closure of ScanRange that passes the item of the end id too
ScanRangeIterThroughEnd(st, item) ==
    LET hd == IterHead(st)
        u == UserIter(hd.st, item)
        past == IF ~st.desc THEN StrLess(st.endk, item.id) ELSE StrLess(item.id, st.endk)
    IN  IF hd.skip THEN hd.st
        ELSE IF past THEN [hd.st EXCEPT !.unpassed = Append(@, item.id), !.ret = FALSE]
        ELSE [u EXCEPT !.keepon = u.ret]

\* the closure of ScanRange
ScanRangeIter(st, item) ==
    LET hd == IterHead(st)
        u == UserIter(hd.st, item)
        past == IF ~st.desc THEN StrLeq(st.endk, item.id) ELSE StrLeq(item.id, st.endk)
    IN  IF hd.skip THEN hd.st
        ELSE IF past THEN [hd.st EXCEPT !.unpassed = Append(@, item.id), !.ret = FALSE]
        ELSE [u EXCEPT !.keepon = u.ret]

\* o.Within(obj) or o.Intersects(obj), as the query asks
GeoMatch(st, item) ==
    IF st.kind = "within" THEN ObjWithin(item.obj, st.qobj)
    ELSE ObjIntersects(item.obj, st.qobj)

\* a closure that passes every candidate of the search to the callback
GeoIterAnyCandidate(st, item) ==
    LET hd == IterHead(st)
        u == UserIter(hd.st, item)
    IN  IF hd.skip THEN [hd.st EXCEPT !.keepon = TRUE] ELSE [u EXCEPT !.keepon = u.ret]

\* the closure of Within / Intersects with sparse = 0, under geoSearch's
\* wrapper, which assigns every return value to alive (keepon here)
GeoIter(st, item) ==
    LET hd == IterHead(st)
        u == UserIter(hd.st, item)
    IN  IF hd.skip THEN [hd.st EXCEPT !.keepon = TRUE]
        ELSE IF GeoMatch(st, item) THEN [u EXCEPT !.keepon = u.ret]
        ELSE [hd.st EXCEPT !.unpassed = Append(@, item.id), !.ret = TRUE, !.keepon = TRUE]

\* a sparse closure under a geoSparse that keeps no set of matches
SparseIterNoMatches(st, item) ==
    LET hd == IterHead(st)
        u == UserIter(hd.st, item)
    IN  IF hd.skip THEN hd.st
        ELSE IF GeoMatch(st, item)
             THEN [u EXCEPT !.alive = u.ret, !.ret = FALSE]
        ELSE [hd.st EXCEPT !.unpassed = Append(@, item.id), !.alive = FALSE, !.ret = FALSE]

\* a sparse closure that takes every candidate for a match
SparseIterAnyCandidate(st, item) ==
    LET hd == IterHead(st)
        u == UserIter(hd.st, item)
    IN  IF item.id \in st.matches THEN [st EXCEPT !.ret = TRUE]
        ELSE IF hd.skip THEN hd.st
        ELSE [u EXCEPT !.matches = @ \cup {item.id}, !.alive = u.ret, !.ret = FALSE]

\* the closure of Within / Intersects with sparse > 0, under three wrappers:
\* that of geoSparse, which skips the ids in matches and adds a match to
\* them; that of the leaf of geoSparseInner, which clears alive and stops
\* the search when ok is false and stops the search on a match; and that
\* of geoSearch.  ok is a named result, false until the callback sets it.
SparseIter(st, item) ==
    LET hd == IterHead(st)
        u == UserIter(hd.st, item)
    IN  IF item.id \in st.matches THEN [st EXCEPT !.ret = TRUE]
        ELSE IF hd.skip THEN hd.st
        ELSE IF GeoMatch(st, item)
             THEN [u EXCEPT !.matches = @ \cup {item.id}, !.alive = u.ret, !.ret = FALSE]
        ELSE [hd.st EXCEPT !.unpassed = Append(@, item.id), !.alive = FALSE, !.ret = FALSE]

\* the closure of Nearby
NearbyIter(st, item) ==
    LET hd == IterHead(st)
        u == UserIter(hd.st, item)
    IN  IF hd.skip THEN hd.st ELSE [u EXCEPT !.keepon = u.ret]

\* iter(item): the closure st.kind names, applied to the item at addr
CallIter(h, st, addr) ==
    IF st.kind = "user" THEN UserIter(st, h[addr])
    ELSE IF st.kind = "scan" THEN ScanIter(st, h[addr])
    ELSE IF st.kind = "range" THEN ScanRangeIter(st, h[addr])
    ELSE IF st.kind = "nearby" THEN NearbyIter(st, h[addr])
    ELSE IF st.sparse THEN SparseIter(st, h[addr])
    ELSE GeoIter(st, h[addr])

(***************************************************************************)
(* B-tree traversals.  Each returns the closure state after the traversal  *)
(* and the traversal's own boolean result.                                 *)
(***************************************************************************)
RECURSIVE nodeScan(_, _, _, _)
RECURSIVE nodeScanFrom(_, _, _, _, _)
nodeScanFrom(h, n, height, i, st) ==
    IF i >= n.numItems THEN
        IF height = 0 THEN [st |-> st, ok |-> TRUE]
        ELSE nodeScan(h, n.children[n.numItems], height - 1, st)
    ELSE
        LET c == IF height = 0 THEN [st |-> st, ok |-> TRUE]
                 ELSE nodeScan(h, n.children[i], height - 1, st)
            s1 == CallIter(h, c.st, n.items[i])
        IN  IF ~c.ok THEN [st |-> c.st, ok |-> FALSE]
            ELSE IF ~s1.ret THEN [st |-> s1, ok |-> FALSE]
            ELSE nodeScanFrom(h, n, height, i + 1, s1)

nodeScan(h, n, height, st) == nodeScanFrom(h, n, height, 0, st)

BTreeScan(h, tr, st) ==
    IF IsNilNode(tr.root) THEN st ELSE nodeScan(h, tr.root, tr.height, st).st

RECURSIVE nodeReverse(_, _, _, _)
RECURSIVE nodeReverseFrom(_, _, _, _, _)
nodeReverseFrom(h, n, height, i, st) ==
    IF i < 0 THEN [st |-> st, ok |-> TRUE]
    ELSE
        LET s1 == CallIter(h, st, n.items[i])
            c == IF height = 0 THEN [st |-> s1, ok |-> TRUE]
                 ELSE nodeReverse(h, n.children[i], height - 1, s1)
        IN  IF ~s1.ret THEN [st |-> s1, ok |-> FALSE]
            ELSE IF ~c.ok THEN [st |-> c.st, ok |-> FALSE]
            ELSE nodeReverseFrom(h, n, height, i - 1, c.st)

\* node.reverse that forgets the last child of an inner node
nodeReverseNoLastChild(h, n, height, st) ==
    nodeReverseFrom(h, n, height, n.numItems - 1, st)

nodeReverse(h, n, height, st) ==
    IF height = 0 THEN nodeReverseFrom(h, n, 0, n.numItems - 1, st)
    ELSE
        LET c == nodeReverse(h, n.children[n.numItems], height - 1, st)
        IN  IF ~c.ok THEN [st |-> c.st, ok |-> FALSE]
            ELSE nodeReverseFrom(h, n, height, n.numItems - 1, c.st)

BTreeReverse(h, tr, st) ==
    IF IsNilNode(tr.root) THEN st ELSE nodeReverse(h, tr.root, tr.height, st).st

\* the loop of node.ascend from index i
RECURSIVE nodeAscendFrom(_, _, _, _, _)
nodeAscendFrom(h, n, height, i, st) ==
    IF i >= n.numItems THEN [st |-> st, ok |-> TRUE]
    ELSE
        LET s1 == CallIter(h, st, n.items[i])
            c == IF height = 0 THEN [st |-> s1, ok |-> TRUE]
                 ELSE nodeScan(h, n.children[i + 1], height - 1, s1)
        IN  IF ~s1.ret THEN [st |-> s1, ok |-> FALSE]
            ELSE IF ~c.ok THEN [st |-> c.st, ok |-> FALSE]
            ELSE nodeAscendFrom(h, n, height, i + 1, c.st)

RECURSIVE nodeAscend(_, _, _, _, _)
nodeAscend(h, n, pivot, height, st) ==
    LET f == find(h, n, pivot)
        c == IF ~f.found /\ height > 0
             THEN nodeAscend(h, n.children[f.index], pivot, height - 1, st)
             ELSE [st |-> st, ok |-> TRUE]
    IN  IF ~c.ok THEN [st |-> c.st, ok |-> FALSE]
        ELSE nodeAscendFrom(h, n, height, f.index, c.st)

BTreeAscend(h, tr, pivot, st) ==
    IF IsNilNode(tr.root) THEN st ELSE nodeAscend(h, tr.root, pivot, tr.height, st).st

RECURSIVE nodeDescend(_, _, _, _, _)
\* node.descend that steps below the index find returned even when the pivot was found
nodeDescendBelow(h, n, pivot, height, st) ==
    LET f == find(h, n, pivot)
        c == IF ~f.found /\ height > 0
             THEN nodeDescend(h, n.children[f.index], pivot, height - 1, st)
             ELSE [st |-> st, ok |-> TRUE]
    IN  IF ~c.ok THEN [st |-> c.st, ok |-> FALSE]
        ELSE nodeReverseFrom(h, n, height, f.index - 1, c.st)

nodeDescend(h, n, pivot, height, st) ==
    LET f == find(h, n, pivot)
        c == IF ~f.found /\ height > 0
             THEN nodeDescend(h, n.children[f.index], pivot, height - 1, st)
             ELSE [st |-> st, ok |-> TRUE]
        i == IF f.found THEN f.index ELSE f.index - 1
    IN  IF ~c.ok THEN [st |-> c.st, ok |-> FALSE]
        ELSE nodeReverseFrom(h, n, height, i, c.st)

BTreeDescend(h, tr, pivot, st) ==
    IF IsNilNode(tr.root) THEN st ELSE nodeDescend(h, tr.root, pivot, tr.height, st).st

(***************************************************************************)
(* The R-tree (package rtree).  Its entries are kept as a sequence in the  *)
(* order a traversal meets them; the tree's shape, and so the place a new  *)
(* entry takes in that order, is not fixed by the contract.                *)
(***************************************************************************)
RemoveAt(sq, k) == [j \in 1..(Len(sq) - 1) |-> IF j < k THEN sq[j] ELSE sq[j + 1]]
InsertAt(sq, k, e) ==
    [j \in 1..(Len(sq) + 1) |-> IF j < k THEN sq[j] ELSE IF j = k THEN e ELSE sq[j - 1]]

\* BoxTree.Insert(min, max, item), the entry landing at place pos (or last)
rtreeInsert(ix, min, max, item, pos) ==
    InsertAt(ix, Min2(pos, Len(ix) + 1), [min |-> min, max |-> max, item |-> item])

\* BoxTree.Delete(min, max, item): removes the entry of that item and box
rtreeDelete(ix, min, max, item) ==
    LET hits == {k \in 1..Len(ix) :
                    ix[k].item = item /\ ix[k].min = min /\ ix[k].max = max}
    IN  IF hits = {} THEN ix
        ELSE RemoveAt(ix, CHOOSE k \in hits : \A j \in hits : k <= j)

rtreeCount(ix) == Len(ix)

\* BoxTree.Search(min, max, iter): every entry whose box intersects the
\* query box, until iter returns false
RECURSIVE rtreeSearchFrom(_, _, _, _, _, _)
rtreeSearchFrom(h, ix, min, max, k, st) ==
    IF k > Len(ix) THEN st
    ELSE IF ~RectIntersects(min, max, ix[k].min, ix[k].max)
         THEN rtreeSearchFrom(h, ix, min, max, k + 1, st)
    ELSE LET s1 == CallIter(h, st, ix[k].item)
         IN  IF ~s1.ret THEN s1 ELSE rtreeSearchFrom(h, ix, min, max, k + 1, s1)

rtreeSearch(h, ix, min, max, st) == rtreeSearchFrom(h, ix, min, max, 1, st)

\* the entries in the order BoxTree.Nearby yields them: by distance, entries
\* at the same distance in traversal order
RECURSIVE rtreeNearbyOrder(_, _, _, _)
rtreeNearbyOrder(ix, min, max, done) ==
    LET left == (1..Len(ix)) \ done
        d(k) == BoxDist(min, max, ix[k].min, ix[k].max)
        nxt == CHOOSE k \in left :
                  \A j \in left : d(k) < d(j) \/ (d(k) = d(j) /\ k <= j)
    IN  IF left = {} THEN <<>>
        ELSE <<ix[nxt]>> \o rtreeNearbyOrder(ix, min, max, done \cup {nxt})

RECURSIVE rtreeNearbyFrom(_, _, _, _)
rtreeNearbyFrom(h, ord, k, st) ==
    IF k > Len(ord) THEN st
    ELSE LET s1 == CallIter(h, st, ord[k].item)
         IN  IF ~s1.ret THEN s1 ELSE rtreeNearbyFrom(h, ord, k + 1, s1)

rtreeNearby(h, ix, min, max, st) ==
    rtreeNearbyFrom(h, rtreeNearbyOrder(ix, min, max, {}), 1, st)

(***************************************************************************)
(* The value B-tree (github.com/tidwall/btree ordered by Item.Less): the   *)
(* item pointers in Less order.                                            *)
(***************************************************************************)
\* two items neither of which is Less than the other
LessEquiv(a, b) == ~ItemLess(a, b) /\ ~ItemLess(b, a)

\* BTree.ReplaceOrInsert(item)
valuesReplaceOrInsert(h, vs, item) ==
    LET same == {k \in 1..Len(vs) : LessEquiv(h[vs[k]], h[item])}
        below == {k \in 1..Len(vs) : ItemLess(h[vs[k]], h[item])}
    IN  IF same # {} THEN [k \in 1..Len(vs) |-> IF k \in same THEN item ELSE vs[k]]
        ELSE InsertAt(vs, Cardinality(below) + 1, item)

\* BTree.Delete(item): removes the entry that compares equal to item
valuesDelete(h, vs, item) ==
    LET same == {k \in 1..Len(vs) : LessEquiv(h[vs[k]], h[item])}
    IN  IF same = {} THEN vs ELSE RemoveAt(vs, CHOOSE k \in same : TRUE)

\* Ascend / Descend / AscendRange(greaterOrEqual, lessThan) /
\* DescendRange(lessOrEqual, greaterThan) with pivot items lo and hi
RECURSIVE valuesWalk(_, _, _, _, _, _, _, _)
valuesWalk(h, vs, k, dir, useRange, lo, hi, st) ==
    IF k < 1 \/ k > Len(vs) THEN st
    ELSE
        LET it == h[vs[k]]
            before == IF dir > 0 THEN ItemLess(it, lo) ELSE ItemLess(lo, it)
            after == IF dir > 0 THEN ~ItemLess(it, hi) ELSE ~ItemLess(hi, it)
            s1 == CallIter(h, st, vs[k])
        IN  IF useRange /\ before THEN valuesWalk(h, vs, k + dir, dir, useRange, lo, hi, st)
            ELSE IF useRange /\ after THEN st
            ELSE IF ~s1.ret THEN s1
            ELSE valuesWalk(h, vs, k + dir, dir, useRange, lo, hi, s1)

(***************************************************************************)
(* The Collection.  c is the Collection struct together with the heap its  *)
(* item pointers point into.                                               *)
(***************************************************************************)
\* the names a field can have, and "no index" in the field map
FieldNames == {"f", "g"}
NoIndex == -1

\* len(c.fieldMap)
fieldMapLen(fm) == Cardinality({nm \in DOMAIN fm : fm[nm] # NoIndex})

\* the item pointers the identifier B-tree holds in its live slots
RECURSIVE nodeAddrs(_, _)
nodeAddrs(n, height) ==
    IF IsNilNode(n) THEN {}
    ELSE {n.items[k] : k \in 0..(n.numItems - 1)}
         \cup (IF height = 0 THEN {}
               ELSE UNION {nodeAddrs(n.children[k], height - 1) : k \in 0..n.numItems})

Refs(c) ==
    nodeAddrs(c.items.root, c.items.height)
      \cup {c.index[k].item : k \in 1..Len(c.index)}
      \cup {c.values[k] : k \in 1..Len(c.values)}

\* an address no index refers to: where the next item.New block is placed
FreeAddrs(c) == (DOMAIN c.heap) \ Refs(c)
Alloc(c) == CHOOSE a \in FreeAddrs(c) : \A b \in FreeAddrs(c) : a <= b

\* blocks no index refers to any more are reclaimed
Collect(c) ==
    [c EXCEPT !.heap = [a \in DOMAIN c.heap |-> IF a \in Refs(c) THEN c.heap[a] ELSE NoItem]]

\* collection.New(packed) over a heap of the given size
NewCollection(isPacked, heapSize) ==
    [heap |-> [a \in 1..heapSize |-> NoItem],
     items |-> NewBTree, index |-> <<>>, values |-> <<>>, packed |-> isPacked,
     fieldMap |-> [nm \in FieldNames |-> NoIndex],
     weight |-> 0, points |-> 0, objects |-> 0, nobjects |-> 0]

Count(c) == c.objects + c.nobjects
StringCount(c) == c.nobjects
PointCount(c) == c.points
TotalWeight(c) == c.weight

\* itemFields(item): nil, or a view of the item's fields
NilFields == [nil |-> TRUE, vals |-> <<>>]
itemFields(item) ==
    IF ~item.live \/ ~HasFields(item) THEN NilFields
    ELSE [nil |-> FALSE, vals |-> ForEachField(item, -1)]

\* an addItem that gives the R-tree every spatial object, empty or not
addItemAnyGeometry(c, a, pos) ==
    LET item == c.heap[a]
        wp == WeightAndPoints(item)
        c1 == IF objIsSpatial(item.obj) THEN
                  [c EXCEPT !.index = rtreeInsert(@, item.obj.min, item.obj.max, a, pos),
                            !.objects = @ + 1]
              ELSE [c EXCEPT !.values = valuesReplaceOrInsert(c.heap, @, a),
                             !.nobjects = @ + 1]
    IN  [c1 EXCEPT !.weight = @ + wp.weight, !.points = @ + wp.points]

\* an addItem that counts no string
addItemUncountedString(c, a, pos) ==
    LET item == c.heap[a]
        wp == WeightAndPoints(item)
        c1 == IF objIsSpatial(item.obj) THEN
                  [c EXCEPT !.index = IF ~item.obj.empty
                                      THEN rtreeInsert(@, item.obj.min, item.obj.max, a, pos)
                                      ELSE @,
                            !.objects = @ + 1]
              ELSE [c EXCEPT !.values = valuesReplaceOrInsert(c.heap, @, a)]
    IN  [c1 EXCEPT !.weight = @ + wp.weight, !.points = @ + wp.points]

\* addItem; pos is the place the R-tree gives the new entry
addItem(c, a, pos) ==
    LET item == c.heap[a]
        wp == WeightAndPoints(item)
        c1 == IF objIsSpatial(item.obj) THEN
                  [c EXCEPT !.index = IF ~item.obj.empty
                                      THEN rtreeInsert(@, item.obj.min, item.obj.max, a, pos)
                                      ELSE @,
                            !.objects = @ + 1]
              ELSE [c EXCEPT !.values = valuesReplaceOrInsert(c.heap, @, a),
                             !.nobjects = @ + 1]
    IN  [c1 EXCEPT !.weight = @ + wp.weight, !.points = @ + wp.points]

\* a delItem that leaves the collection's point count as it was
delItemKeepsPoints(c, a) ==
    LET item == c.heap[a]
        wp == WeightAndPoints(item)
        c1 == IF objIsSpatial(item.obj) THEN
                  [c EXCEPT !.index = IF ~item.obj.empty
                                      THEN rtreeDelete(@, item.obj.min, item.obj.max, a)
                                      ELSE @,
                            !.objects = @ - 1]
              ELSE [c EXCEPT !.values = valuesDelete(c.heap, @, a),
                             !.nobjects = @ - 1]
    IN  [c1 EXCEPT !.weight = @ - wp.weight]

delItem(c, a) ==
    LET item == c.heap[a]
        wp == WeightAndPoints(item)
        c1 == IF objIsSpatial(item.obj) THEN
                  [c EXCEPT !.index = IF ~item.obj.empty
                                      THEN rtreeDelete(@, item.obj.min, item.obj.max, a)
                                      ELSE @,
                            !.objects = @ - 1]
              ELSE [c EXCEPT !.values = valuesDelete(c.heap, @, a),
                             !.nobjects = @ - 1]
    IN  [c1 EXCEPT !.weight = @ - wp.weight, !.points = @ - wp.points]

\* a setFieldAt that leaves the collection's weight as it was
setFieldKeepWeight(c, a, fieldName, idx, r, updateWeight) ==
    [c |-> [c EXCEPT !.fieldMap[fieldName] = idx, !.heap[a] = r.item],
     updated |-> r.updated]

\* the second half of Collection.setField: idx is the index the name has or
\* was given, r what item.SetField(idx, fieldValue) returned
setFieldAt(c, a, fieldName, idx, r, updateWeight) ==
    [c |-> [c EXCEPT !.fieldMap[fieldName] = idx,
                     !.heap[a] = r.item,
                     !.weight = IF updateWeight /\ r.updated
                                THEN c.weight - WeightAndPoints(c.heap[a]).weight
                                       + WeightAndPoints(r.item).weight
                                ELSE c.weight],
     updated |-> r.updated]

\* every new name is given the index 0
firstFieldIndex(fm) == 0

\* the index setField gives a name the map does not hold
newFieldIndex(fm) == fieldMapLen(fm)

\* Collection.setField on the item at address a
setField(c, a, fieldName, fieldValue, updateWeight) ==
    LET known == c.fieldMap[fieldName] # NoIndex
        idx == IF known THEN c.fieldMap[fieldName] ELSE newFieldIndex(c.fieldMap)
    IN  setFieldAt(c, a, fieldName, idx, ItemSetField(c.heap[a], idx, fieldValue),
                   updateWeight)

RECURSIVE setFieldsFrom(_, _, _, _, _, _, _)
\* the rest of the loop of setFields after setField returned r for name i
setFieldsNext(a, fieldNames, fieldValues, updateWeight, i, updatedCount, r) ==
    setFieldsFrom(r.c, a, fieldNames, fieldValues, updateWeight, i + 1,
                  IF r.updated THEN updatedCount + 1 ELSE updatedCount)

setFieldsFrom(c, a, fieldNames, fieldValues, updateWeight, i, updatedCount) ==
    IF i > Len(fieldNames) THEN [c |-> c, updatedCount |-> updatedCount]
    ELSE setFieldsNext(a, fieldNames, fieldValues, updateWeight, i, updatedCount,
                       setField(c, a, fieldNames[i],
                                IF i <= Len(fieldValues) THEN fieldValues[i] ELSE 0,
                                updateWeight))

setFields(c, a, fieldNames, fieldValues, updateWeight) ==
    setFieldsFrom(c, a, fieldNames, fieldValues, updateWeight, 1, 0)

\* the end of Set: c5 is the collection with the new item at a in its
\* indexes; the return values are the old object, the old and the new fields
SetReturn(c5, a, oldItem, replaced) ==
    [c |-> Collect(c5),
     oldObj |-> IF replaced THEN oldItem.obj ELSE NilObj,
     oldFields |-> itemFields(oldItem),
     newFields |-> itemFields(c5.heap[a]),
     replaced |-> replaced]

\* Set after the old item's fields were copied over: the fields and values
\* of the call are applied to the new item, then the item is indexed
SetGiven(c3, a, oldItem, replaced, fieldsNil, fields, vals, pos) ==
    SetReturn(addItem(IF fieldsNil /\ Len(vals) > 0
                      THEN [c3 EXCEPT !.heap[a] = CopyOverFieldsValues(@, vals)]
                      ELSE IF Len(fields) > 0
                           THEN setFields(c3, a, fields, vals, FALSE).c
                           ELSE c3,
                      a, pos),
              a, oldItem, replaced)

\* a new item that does not take over the old item's fields
InheritNothing(c2, a, oldItem, replaced) == c2

\* newItem.CopyOverFields(oldItem) when an item with fields was replaced
InheritFields(c2, a, oldItem, replaced) ==
    IF replaced /\ HasFields(oldItem)
    THEN [c2 EXCEPT !.heap[a] = CopyOverFieldsItem(@, oldItem)]
    ELSE c2

\* Set after c.items.Set returned r: the old item leaves the indexes
SetReplaced(c0, a, r, fieldsNil, fields, vals, pos) ==
    LET oldItem == IF r.replaced THEN c0.heap[r.prev] ELSE NoItem
        c1 == [c0 EXCEPT !.items = r.tree]
    IN  SetGiven(InheritFields(IF r.replaced THEN delItem(c1, r.prev) ELSE c1,
                               a, oldItem, r.replaced),
                 a, oldItem, r.replaced, fieldsNil, fields, vals, pos)

\* Set with the new item placed at address a
SetNew(c0, a, fieldsNil, fields, vals, pos) ==
    SetReplaced(c0, a, BTreeSet(c0.heap, c0.items, a), fieldsNil, fields, vals, pos)

\* Collection.Set(id, obj, fields, values); fieldsNil tells fields == nil
Set(c, id, obj, fieldsNil, fields, vals, pos) ==
    LET a == Alloc(c)
    IN  SetNew([c EXCEPT !.heap[a] = New(id, obj, c.packed)], a,
               fieldsNil, fields, vals, pos)

\* Delete after c.items.Delete returned r
DeleteFound(c, r) ==
    IF ~r.deleted THEN [c |-> c, obj |-> NilObj, fields |-> NilFields, ok |-> FALSE]
    ELSE [c |-> Collect(delItem([c EXCEPT !.items = r.tree], r.prev)),
          obj |-> c.heap[r.prev].obj,
          fields |-> itemFields(c.heap[r.prev]), ok |-> TRUE]

\* Collection.Delete(id)
Delete(c, id) == DeleteFound(c, BTreeDelete(c.heap, c.items, id))

\* Get after c.items.Get returned g
GetFound(c, g) ==
    IF ~g.gotten THEN [obj |-> NilObj, fields |-> NilFields, ok |-> FALSE]
    ELSE [obj |-> c.heap[g.item].obj, fields |-> itemFields(c.heap[g.item]), ok |-> TRUE]

\* Collection.Get(id)
Get(c, id) == GetFound(c, BTreeGet(c.heap, c.items, id))

\* SetField after setField returned r for the item at a
SetFieldReturn(r, a) ==
    [c |-> r.c, obj |-> r.c.heap[a].obj, fields |-> itemFields(r.c.heap[a]),
     updated |-> r.updated, ok |-> TRUE]

\* a SetField that registers the field name before it tells the id is absent
SetFieldRegisters(c, g, fieldName, fieldValue) ==
    IF ~g.gotten
    THEN [c |-> IF c.fieldMap[fieldName] # NoIndex THEN c
                ELSE [c EXCEPT !.fieldMap[fieldName] = fieldMapLen(c.fieldMap)],
          obj |-> NilObj, fields |-> NilFields, updated |-> FALSE, ok |-> FALSE]
    ELSE SetFieldReturn(setField(c, g.item, fieldName, fieldValue, TRUE), g.item)

\* SetField after c.items.Get returned g
SetFieldFound(c, g, fieldName, fieldValue) ==
    IF ~g.gotten
    THEN [c |-> c, obj |-> NilObj, fields |-> NilFields, updated |-> FALSE, ok |-> FALSE]
    ELSE SetFieldReturn(setField(c, g.item, fieldName, fieldValue, TRUE), g.item)

\* Collection.SetField(id, fieldName, fieldValue)
SetField(c, id, fieldName, fieldValue) ==
    SetFieldFound(c, BTreeGet(c.heap, c.items, id), fieldName, fieldValue)

\* SetFields after setFields returned r for the item at a
SetFieldsReturn(r, a) ==
    [c |-> r.c, obj |-> r.c.heap[a].obj, fields |-> itemFields(r.c.heap[a]),
     updatedCount |-> r.updatedCount, ok |-> TRUE]

\* SetFields after c.items.Get returned g
SetFieldsFound(c, g, fieldNames, fieldValues) ==
    IF ~g.gotten
    THEN [c |-> c, obj |-> NilObj, fields |-> NilFields, updatedCount |-> 0, ok |-> FALSE]
    ELSE SetFieldsReturn(setFields(c, g.item, fieldNames, fieldValues, TRUE), g.item)

\* Collection.SetFields(id, fieldNames, fieldValues)
SetFields(c, id, fieldNames, fieldValues) ==
    SetFieldsFound(c, BTreeGet(c.heap, c.items, id), fieldNames, fieldValues)

\* Collection.FieldMap and Collection.FieldArr; a slot of the array no name
\* maps to keeps the empty string
FieldMap(c) == c.fieldMap
FieldArr(c) ==
    [i \in 0..(fieldMapLen(c.fieldMap) - 1) |->
        IF \E nm \in FieldNames : c.fieldMap[nm] = i
        THEN CHOOSE nm \in FieldNames : c.fieldMap[nm] = i
        ELSE ""]

(***************************************************************************)
(* Queries.  cursor tells whether a Cursor was passed, offset is what its  *)
(* Offset() returns.  Each query returns the closure state at its end;     *)
(* the query's boolean result is the field result.                         *)
(***************************************************************************)
\* a query entry that reads the offset and leaves the cursor where it is
EnterCursorNoStep(st) == st

\* offset = cursor.Offset(); cursor.Step(offset)
EnterCursor(st) == IF st.cursor THEN [st EXCEPT !.steps = Append(@, st.offset)] ELSE st

Finish(st) == [st |-> st, result |-> st.keepon]

\* Collection.Scan
Scan(c, desc, cursor, offset, stop) ==
    LET st == EnterCursor(NewIter("scan", desc, <<>>, NilObj, cursor, offset, stop))
    IN  Finish(IF desc THEN BTreeReverse(c.heap, c.items, st)
               ELSE BTreeScan(c.heap, c.items, st))

\* Collection.ScanRange
ScanRange(c, start, end, desc, cursor, offset, stop) ==
    LET st == EnterCursor(NewIter("range", desc, end, NilObj, cursor, offset, stop))
    IN  Finish(IF desc THEN BTreeDescend(c.heap, c.items, start, st)
               ELSE BTreeAscend(c.heap, c.items, start, st))

\* Collection.ScanGreaterOrEqual
ScanGreaterOrEqual(c, id, desc, cursor, offset, stop) ==
    LET st == EnterCursor(NewIter("scan", desc, <<>>, NilObj, cursor, offset, stop))
    IN  Finish(IF desc THEN BTreeDescend(c.heap, c.items, id, st)
               ELSE BTreeAscend(c.heap, c.items, id, st))

\* Collection.SearchValues
SearchValues(c, desc, cursor, offset, stop) ==
    LET st == EnterCursor(NewIter("scan", desc, <<>>, NilObj, cursor, offset, stop))
    IN  Finish(IF desc
               THEN valuesWalk(c.heap, c.values, Len(c.values), -1, FALSE, NoItem, NoItem, st)
               ELSE valuesWalk(c.heap, c.values, 1, 1, FALSE, NoItem, NoItem, st))

\* a SearchValuesRange whose end item has an id above every id
SearchValuesRangeThroughEnd(c, start, end, desc, cursor, offset, stop) ==
    LET st == EnterCursor(NewIter("scan", desc, <<>>, NilObj, cursor, offset, stop))
        lo == New(<<>>, String(start), FALSE)
        hi == New(<<255>>, String(end), FALSE)
    IN  Finish(IF desc
               THEN valuesWalk(c.heap, c.values, Len(c.values), -1, TRUE, lo, hi, st)
               ELSE valuesWalk(c.heap, c.values, 1, 1, TRUE, lo, hi, st))

\* Collection.SearchValuesRange
SearchValuesRange(c, start, end, desc, cursor, offset, stop) ==
    LET st == EnterCursor(NewIter("scan", desc, <<>>, NilObj, cursor, offset, stop))
        lo == New(<<>>, String(start), FALSE)
        hi == New(<<>>, String(end), FALSE)
    IN  Finish(IF desc
               THEN valuesWalk(c.heap, c.values, Len(c.values), -1, TRUE, lo, hi, st)
               ELSE valuesWalk(c.heap, c.values, 1, 1, TRUE, lo, hi, st))

\* Collection.geoSearch: its result is alive, the closure's last return value
geoSearch(c, min, max, st) == rtreeSearch(c.heap, c.index, min, max, st)

\* the four quadrants of a rectangle, the bottom row before the top row
geoSparseQuadsBottomFirst(min, max) ==
    LET midx == min[1] + ((max[1] - min[1]) \div 2)
        midy == min[2] + ((max[2] - min[2]) \div 2)
    IN  <<[min |-> min, max |-> <<midx, midy>>],
          [min |-> <<midx, min[2]>>, max |-> <<max[1], midy>>],
          [min |-> <<min[1], midy>>, max |-> <<midx, max[2]>>],
          [min |-> <<midx, midy>>, max |-> max]>>

\* the four quadrants of a rectangle in the order geoSparseInner visits them
geoSparseQuads(min, max) ==
    LET midx == min[1] + ((max[1] - min[1]) \div 2)
        midy == min[2] + ((max[2] - min[2]) \div 2)
    IN  <<[min |-> <<min[1], midy>>, max |-> <<midx, max[2]>>],
          [min |-> <<midx, midy>>, max |-> max],
          [min |-> min, max |-> <<midx, midy>>],
          [min |-> <<midx, min[2]>>, max |-> <<max[1], midy>>]>>

\* Collection.geoSparseInner; ok is its result
RECURSIVE geoSparseInner(_, _, _, _, _)
RECURSIVE geoSparseLoop(_, _, _, _, _)
geoSparseLoop(c, quads, k, sparse, st) ==
    IF k > 4 THEN [st |-> st, ok |-> TRUE]
    ELSE LET r == geoSparseInner(c, quads[k].min, quads[k].max, sparse - 1, st)
         IN  IF ~r.ok THEN [st |-> r.st, ok |-> FALSE]
             ELSE geoSparseLoop(c, quads, k + 1, sparse, r.st)

\* a leaf that reports alive whatever the callback returned
geoSparseLeafAlive(s1) == [st |-> s1, ok |-> TRUE]

geoSparseLeaf(s1) == [st |-> s1, ok |-> s1.alive]

geoSparseInner(c, min, max, sparse, st) ==
    IF sparse > 0 THEN geoSparseLoop(c, geoSparseQuads(min, max), 1, sparse, st)
    ELSE geoSparseLeaf(geoSearch(c, min, max, [st EXCEPT !.alive = TRUE]))

\* Collection.geoSparse: it returns its own alive, which nothing assigns to
geoSparse(c, obj, sparse, st) ==
    [geoSparseInner(c, obj.min, obj.max, sparse, [st EXCEPT !.sparse = TRUE]).st
        EXCEPT !.keepon = TRUE]

\* Collection.Within and Collection.Intersects
geoQuery(c, obj, sparse, st) ==
    Finish(IF sparse > 0 THEN geoSparse(c, obj, sparse, st)
           ELSE geoSearch(c, obj.min, obj.max, st))

Within(c, obj, sparse, cursor, offset, stop) ==
    geoQuery(c, obj, sparse,
             EnterCursor(NewIter("within", FALSE, <<>>, obj, cursor, offset, stop)))

Intersects(c, obj, sparse, cursor, offset, stop) ==
    geoQuery(c, obj, sparse,
             EnterCursor(NewIter("intersects", FALSE, <<>>, obj, cursor, offset, stop)))

\* a geojson.Circle: its rectangle is the square around the centre
CircleObj(x, y, meters) ==
    [spatial |-> TRUE, empty |-> FALSE, min |-> <<x - meters, y - meters>>,
     max |-> <<x + meters, y + meters>>, npoints |-> 1, str |-> <<>>,
     circle |-> TRUE, meters |-> meters]

\* the entries whose box meets the square around the centre of the target
NearbyExists(c, target) ==
    \E k \in 1..Len(c.index) :
        RectIntersects(<<Center(target)[1] - target.meters, Center(target)[2] - target.meters>>,
                       <<Center(target)[1] + target.meters, Center(target)[2] + target.meters>>,
                       c.index[k].min, c.index[k].max)

\* a Nearby that measures from the target's rectangle, not from its centre
NearbyFromRect(c, target, cursor, offset, stop) ==
    LET st0 == NewIter("nearby", FALSE, <<>>, target, cursor, offset, stop)
    IN  IF target.circle /\ target.meters > 0 /\ ~NearbyExists(c, target)
        THEN [st |-> st0, result |-> TRUE]
        ELSE Finish(rtreeNearby(c.heap, c.index, target.min, target.max, EnterCursor(st0)))

\* a Nearby without the fast-fail probe
NearbyNoProbe(c, target, cursor, offset, stop) ==
    LET st0 == NewIter("nearby", FALSE, <<>>, target, cursor, offset, stop)
    IN  Finish(rtreeNearby(c.heap, c.index, Center(target), Center(target), EnterCursor(st0)))

\* a Nearby that probes for every circle, whatever its radius
NearbyProbesAnyCircle(c, target, cursor, offset, stop) ==
    LET st0 == NewIter("nearby", FALSE, <<>>, target, cursor, offset, stop)
    IN  IF target.circle /\ ~NearbyExists(c, target)
        THEN [st |-> st0, result |-> TRUE]
        ELSE Finish(rtreeNearby(c.heap, c.index, Center(target), Center(target),
                                EnterCursor(st0)))

\* Collection.Nearby
Nearby(c, target, cursor, offset, stop) ==
    LET center == Center(target)
        probe == target.circle /\ target.meters > 0
        exists == \E k \in 1..Len(c.index) :
                     RectIntersects(<<center[1] - target.meters, center[2] - target.meters>>,
                                    <<center[1] + target.meters, center[2] + target.meters>>,
                                    c.index[k].min, c.index[k].max)
        st0 == NewIter("nearby", FALSE, <<>>, target, cursor, offset, stop)
    IN  IF probe /\ ~exists THEN [st |-> st0, result |-> TRUE]
        ELSE Finish(rtreeNearby(c.heap, c.index, center, center, EnterCursor(st0)))

(***************************************************************************)
(* The collection as a state machine                                       *)
(***************************************************************************)
\* the Collection the variables hold
Col ==
    [heap |-> heap, items |-> items, index |-> index, values |-> values,
     packed |-> packed, fieldMap |-> fieldMap, weight |-> weight, points |-> points,
     objects |-> objects, nobjects |-> nobjects]

\* the variables take the value of the Collection c1
Becomes(c1) ==
    /\ heap' = c1.heap
    /\ items' = c1.items
    /\ index' = c1.index
    /\ values' = c1.values
    /\ packed' = c1.packed
    /\ fieldMap' = c1.fieldMap
    /\ weight' = c1.weight
    /\ points' = c1.points
    /\ objects' = c1.objects
    /\ nobjects' = c1.nobjects

\* the variables start as the Collection c0
Starts(c0) ==
    /\ heap = c0.heap
    /\ items = c0.items
    /\ index = c0.index
    /\ values = c0.values
    /\ packed = c0.packed
    /\ fieldMap = c0.fieldMap
    /\ weight = c0.weight
    /\ points = c0.points
    /\ objects = c0.objects
    /\ nobjects = c0.nobjects

colVars == <<heap, items, index, values, packed, fieldMap, weight, points,
             objects, nobjects>>

\* bounds of the inputs
NumIds == 2
MaxOps == 3

\* the k-th id: <<1>>, <<1, 1>>, <<3>>, <<3, 1>>, ... in ascending order
IdOf(k) == IF k % 2 = 1 THEN <<k>> ELSE <<k - 1, 1>>
Ids == {IdOf(k) : k \in 1..NumIds}

\* the objects, field values and argument lists the calls are made with
ObjPool == {PointObj(1, 1), RectObj(0, 0, 2, 4), EmptyObj, String(<<7, 8>>)}

FieldVals == {0, 5, 300}

\* (fields, values) of Set; nil tells fields == nil
SetArgs ==
    {[nil |-> TRUE, fields |-> <<>>, vals |-> <<>>],
     [nil |-> TRUE, fields |-> <<>>, vals |-> <<0, 300>>],
     [nil |-> FALSE, fields |-> <<"f">>, vals |-> <<5>>],
     [nil |-> FALSE, fields |-> <<"g", "f">>, vals |-> <<300>>]}

\* (fieldNames, fieldValues) of SetFields
SetFieldsArgs ==
    {[fields |-> <<"f", "g">>, vals |-> <<300, 5>>],
     [fields |-> <<"g", "f">>, vals |-> <<5>>],
     [fields |-> <<>>, vals |-> <<5>>]}

NoObj == NilObj

\* what the last call was: its name, its id and field arguments, its boolean
\* result (replaced for Set, ok for the others) and the number of calls so far
NoCall == [op |-> "New", ok |-> TRUE, n |-> 0, id |-> <<>>, nil |-> TRUE,
           fields |-> <<>>, vals |-> <<>>]

Init ==
    /\ \E isPacked \in BOOLEAN : Starts(NewCollection(isPacked, NumIds + 1))
    /\ last = [id \in Ids |-> NoObj]
    /\ ret = NoCall
    /\ script = <<>>

Called(op, ok, id, fieldsNil, fields, vals) ==
    ret' = [op |-> op, ok |-> ok, n |-> ret.n + 1, id |-> id, nil |-> fieldsNil,
            fields |-> fields, vals |-> vals]

\* the step a call makes: the collection becomes r.c and the call is recorded
Returns(op, r, ok, id, fieldsNil, fields, vals) ==
    /\ Becomes(r.c)
    /\ Called(op, ok, id, fieldsNil, fields, vals)

SetReturns(r, id, fieldsNil, fields, vals) ==
    Returns("Set", r, r.replaced, id, fieldsNil, fields, vals)

CallReturns(op, r, id, fieldsNil, fields, vals) ==
    Returns(op, r, r.ok, id, fieldsNil, fields, vals)

DoSet(id, obj, fieldsNil, fields, vals, pos) ==
    /\ ret.n < MaxOps
    /\ FreeAddrs(Col) # {}
    /\ SetReturns(Set(Col, id, obj, fieldsNil, fields, vals, pos), id, fieldsNil, fields, vals)
    /\ last' = [last EXCEPT ![id] = obj]
    /\ UNCHANGED script

DoDelete(id) ==
    /\ ret.n < MaxOps
    /\ CallReturns("Delete", Delete(Col, id), id, TRUE, <<>>, <<>>)
    /\ last' = [last EXCEPT ![id] = NoObj]
    /\ UNCHANGED script

DoGet(id) ==
    /\ ret.n < MaxOps
    /\ Called("Get", Get(Col, id).ok, id, TRUE, <<>>, <<>>)
    /\ UNCHANGED <<colVars, last, script>>

DoSetField(id, fieldName, fieldValue) ==
    /\ ret.n < MaxOps
    /\ CallReturns("SetField", SetField(Col, id, fieldName, fieldValue),
                   id, FALSE, <<fieldName>>, <<fieldValue>>)
    /\ UNCHANGED <<last, script>>

DoSetFields(id, fieldNames, fieldValues) ==
    /\ ret.n < MaxOps
    /\ CallReturns("SetFields", SetFields(Col, id, fieldNames, fieldValues),
                   id, FALSE, fieldNames, fieldValues)
    /\ UNCHANGED <<last, script>>

Next ==
    \/ \E id \in Ids, obj \in ObjPool, args \in SetArgs, pos \in 1..(Len(index) + 1) :
            DoSet(id, obj, args.nil, args.fields, args.vals, pos)
    \/ \E id \in Ids : DoDelete(id)
    \/ \E id \in Ids : DoGet(id)
    \/ \E id \in Ids, fieldName \in FieldNames, fieldValue \in FieldVals :
            DoSetField(id, fieldName, fieldValue)
    \/ \E id \in Ids, args \in SetFieldsArgs : DoSetFields(id, args.fields, args.vals)

Spec == Init /\ [][Next]_vars

(***************************************************************************)
(* A bulk workload: one collection filled key by key in one of a few       *)
(* orders, running past the number of keys so that late steps replace      *)
(* early items, and then drained key by key in one of a few orders,        *)
(* running past the keys so that late steps delete absent ids.  It grows   *)
(* the identifier B-tree past one node and shrinks it again.               *)
(***************************************************************************)
NumKeys == 40
NumExtra == 3
Stride == 7

\* the k-th key, k from 0: two characters, so that key order is number order
BulkKey(k) == <<(k \div 16) + 1, (k % 16) + 1>>
BulkIds == {BulkKey(k) : k \in 0..(NumKeys - 1)}

FillOrders == {"up", "down", "stride"}

\* the key of step i (from 1) in the given order
OrderKey(order, i) ==
    LET j == (i - 1) % NumKeys
    IN  IF order = "up" THEN BulkKey(j)
        ELSE IF order = "down" THEN BulkKey(NumKeys - 1 - j)
        ELSE BulkKey((j * Stride) % NumKeys)

\* the object step i sets
BulkObj(i) ==
    IF i % 3 = 0 THEN String(<<i % 5>>)
    ELSE IF i % 3 = 1 THEN PointObj(i % 4, i % 7)
    ELSE EmptyObj

\* a drain may start when the fill has made this many steps
DrainStarts == {NumKeys \div 2, NumKeys - 1, NumKeys, NumKeys + NumExtra}

InitBulk ==
    /\ \E isPacked \in BOOLEAN : Starts(NewCollection(isPacked, NumKeys + 1))
    /\ last = [id \in BulkIds |-> NoObj]
    /\ ret = NoCall
    /\ \E order \in FillOrders :
          script = [phase |-> "fill", fill |-> order, k |-> 0, drain |-> "none", d |-> 0]

\* a step of the bulk workload: the collection becomes r.c; ret keeps the
\* call's name, id and result (replaced for Set, ok for Delete)
BulkReturns(op, r, id) ==
    /\ Becomes(r.c)
    /\ ret' = [NoCall EXCEPT !.op = op, !.id = id,
                             !.ok = IF op = "Set" THEN r.replaced ELSE r.ok]

\* Set(id, obj, nil, nil), the new entry of the R-tree placed last
BulkSetReturns(id, obj) ==
    /\ BulkReturns("Set", Set(Col, id, obj, TRUE, <<>>, <<>>, Len(index) + 1), id)
    /\ last' = [last EXCEPT ![id] = obj]

\* Delete(id)
BulkDeleteReturns(id) ==
    /\ BulkReturns("Delete", Delete(Col, id), id)
    /\ last' = [last EXCEPT ![id] = NoObj]

\* the calls that build the collection; a query leaves the collection as it
\* is, so the workload goes on from the states these calls leave
BulkCalls == {"New", "Set", "Delete"}

\* the next step of the fill: Set(key, obj, nil, nil)
BulkSet ==
    /\ ret.op \in BulkCalls
    /\ script.phase = "fill"
    /\ script.k < NumKeys + NumExtra
    /\ BulkSetReturns(OrderKey(script.fill, script.k + 1), BulkObj(script.k + 1))
    /\ script' = [script EXCEPT !.k = @ + 1]

\* the fill stops and a drain order is chosen
BulkTurn ==
    /\ ret.op \in BulkCalls
    /\ script.phase = "fill"
    /\ script.k \in DrainStarts
    /\ \E order \in FillOrders : script' = [script EXCEPT !.phase = "drain", !.drain = order]
    /\ UNCHANGED <<colVars, last, ret>>

\* the next step of the drain: Delete(key)
BulkDelete ==
    /\ ret.op \in BulkCalls
    /\ script.phase = "drain"
    /\ script.d < NumKeys + NumExtra
    /\ BulkDeleteReturns(OrderKey(script.drain, script.d + 1))
    /\ script' = [script EXCEPT !.d = @ + 1]

\* the strings Get is asked for and the range traversals start from: one
\* key in four, and strings that are no key: below every key, between two
\* keys, above every key
BulkPivots ==
    {BulkKey(k) : k \in {j \in 0..(NumKeys - 1) : j % 4 = 0}}
        \cup {<<>>, <<1, 5, 1>>, <<2>>, <<9>>}

\* a query is made on the collection as a Set or Delete left it
BulkAsks(r) ==
    /\ ret.op \in BulkCalls
    /\ ret' = r
    /\ UNCHANGED <<colVars, last, script>>

\* what Get returned
GetGave(id, g) == [op |-> "Get", id |-> id, ok |-> g.ok, obj |-> g.obj]

\* Get(id)
BulkGet(id) == BulkAsks(GetGave(id, Get(Col, id)))

\* a callback that returns true on every item
Collector == NewIter("user", FALSE, <<>>, NilObj, FALSE, 0, {})

\* the ids a traversal or query passed to the callback, and its result
Passed(op, desc, pivot, q) ==
    [op |-> op, desc |-> desc, id |-> pivot, out |-> q.st.out, ok |-> q.result]

\* Scan(desc, nil, iterator)
BulkScan(desc) == BulkAsks(Passed("Scan", desc, <<>>, Scan(Col, desc, FALSE, 0, {})))

\* c.items.Ascend(pivot, iter) and c.items.Descend(pivot, iter)
BulkAscend(pivot) ==
    BulkAsks(Passed("Ascend", FALSE, pivot, Finish(BTreeAscend(heap, items, pivot, Collector))))

BulkDescend(pivot) ==
    BulkAsks(Passed("Descend", TRUE, pivot, Finish(BTreeDescend(heap, items, pivot, Collector))))

NextBulk ==
    \/ BulkSet
    \/ BulkTurn
    \/ BulkDelete
    \/ \E id \in BulkPivots : BulkGet(id)
    \/ \E desc \in BOOLEAN : BulkScan(desc)
    \/ \E pivot \in BulkPivots : BulkAscend(pivot)
    \/ \E pivot \in BulkPivots : BulkDescend(pivot)

SpecBulk == InitBulk /\ [][NextBulk]_vars

(***************************************************************************)
(* A query workload: a small collection is built by Set calls and every    *)
(* query is asked of it, with and without a cursor.  A query leaves the    *)
(* collection as it is, so a call made after a query finds what the same   *)
(* call made before it finds; the workload stops at a query.               *)
(***************************************************************************)
NumQIds == 3
MaxOffset == 2
MaxSparse == 2

QIds == {IdOf(k) : k \in 1..NumQIds}

\* the side of the query square: a power of two, so that the quadrants of
\* every depth up to MaxSparse have whole corners
QSide == Pow2(MaxSparse)

\* the objects of the items: a point at the square's corner, one at its
\* centre, a rectangle across its far corner, and two strings
QObjs ==
    {PointObj(0, 0), PointObj(QSide \div 2, QSide \div 2),
     RectObj(QSide - 1, QSide - 1, QSide + 1, QSide + 1),
     String(<<7>>), String(<<8>>)}

\* the objects Within and Intersects are asked with: the square and the
\* circle inscribed in it
QAreas == {RectObj(0, 0, QSide, QSide),
           CircleObj(QSide \div 2, QSide \div 2, QSide \div 2)}

\* the targets of Nearby: a point, a circle around the centre, a circle
\* without radius, and a circle far from every item
QTargets == {PointObj(1, 1), CircleObj(QSide \div 2, QSide \div 2, 1),
             CircleObj(1, 1, 0), CircleObj(3 * QSide, 3 * QSide, 1)}

\* the ranges of ids ScanRange is asked for, and the ids
\* ScanGreaterOrEqual starts at
QRanges ==
    {[start |-> <<1>>, end |-> <<3>>], [start |-> <<1>>, end |-> <<1, 1>>],
     [start |-> <<2>>, end |-> <<9>>], [start |-> <<3>>, end |-> <<1>>],
     [start |-> <<3>>, end |-> <<>>], [start |-> <<2>>, end |-> <<1, 1>>]}
QStarts == {<<1>>, <<2>>, <<3>>}

\* the ranges of values SearchValuesRange is asked for
QValueRanges ==
    {[start |-> <<7>>, end |-> <<9>>], [start |-> <<8>>, end |-> <<9>>],
     [start |-> <<7>>, end |-> <<8>>],
     [start |-> <<9>>, end |-> <<7>>], [start |-> <<8>>, end |-> <<7>>]}

\* the cursor: none, or one whose Offset() is k
QCursors ==
    {[on |-> FALSE, offset |-> 0]} \cup {[on |-> TRUE, offset |-> k] : k \in 0..MaxOffset}

\* the ids the callback returns false on
QStops == {{}, {IdOf(2)}}

QueryOps == {"Scan", "ScanRange", "ScanGreaterOrEqual", "SearchValues",
             "SearchValuesRange", "Within", "Intersects", "Nearby"}

InitQuery ==
    /\ \E isPacked \in BOOLEAN : Starts(NewCollection(isPacked, NumQIds + 1))
    /\ last = [id \in QIds |-> NoObj]
    /\ ret = NoCall
    /\ script = <<>>

\* Set(id, obj, nil, nil) on the collection under construction: the ids
\* are set in ascending order, the new entry of the R-tree landing anywhere
QuerySet(id, obj, pos) ==
    /\ ret.op \notin QueryOps
    /\ ret.n < NumQIds
    /\ id = IdOf(ret.n + 1)
    /\ SetReturns(Set(Col, id, obj, TRUE, <<>>, <<>>, pos), id, TRUE, <<>>, <<>>)
    /\ last' = [last EXCEPT ![id] = obj]
    /\ UNCHANGED script

\* the arguments of a query
Query(op, desc, start, end, obj, sparse) ==
    [op |-> op, desc |-> desc, start |-> start, end |-> end, obj |-> obj,
     sparse |-> sparse]

\* the query q asked with cursor cur and a callback stopping on stop
\* returned r: ret keeps the arguments, the calls made on the cursor, the
\* ids passed to the callback and the result
Asked(q, cur, stop, r) ==
    /\ ret.op \notin QueryOps
    /\ ret' = [op |-> q.op, desc |-> q.desc, start |-> q.start, end |-> q.end,
               obj |-> q.obj, sparse |-> q.sparse,
               cursor |-> cur.on, offset |-> cur.offset, stop |-> stop,
               steps |-> r.st.steps, out |-> r.st.out, unpassed |-> r.st.unpassed,
               count |-> r.st.count, yields |-> r.st.yields, ok |-> r.result]
    /\ UNCHANGED <<colVars, last, script>>

QueryScan(desc, cur, stop) ==
    Asked(Query("Scan", desc, <<>>, <<>>, NilObj, 0), cur, stop,
          Scan(Col, desc, cur.on, cur.offset, stop))

QueryScanRange(start, end, desc, cur, stop) ==
    Asked(Query("ScanRange", desc, start, end, NilObj, 0), cur, stop,
          ScanRange(Col, start, end, desc, cur.on, cur.offset, stop))

QueryScanGreaterOrEqual(id, desc, cur, stop) ==
    Asked(Query("ScanGreaterOrEqual", desc, id, <<>>, NilObj, 0), cur, stop,
          ScanGreaterOrEqual(Col, id, desc, cur.on, cur.offset, stop))

QuerySearchValues(desc, cur, stop) ==
    Asked(Query("SearchValues", desc, <<>>, <<>>, NilObj, 0), cur, stop,
          SearchValues(Col, desc, cur.on, cur.offset, stop))

QuerySearchValuesRange(start, end, desc, cur, stop) ==
    Asked(Query("SearchValuesRange", desc, start, end, NilObj, 0), cur, stop,
          SearchValuesRange(Col, start, end, desc, cur.on, cur.offset, stop))

QueryWithin(obj, sparse, cur, stop) ==
    Asked(Query("Within", FALSE, <<>>, <<>>, obj, sparse), cur, stop,
          Within(Col, obj, sparse, cur.on, cur.offset, stop))

QueryIntersects(obj, sparse, cur, stop) ==
    Asked(Query("Intersects", FALSE, <<>>, <<>>, obj, sparse), cur, stop,
          Intersects(Col, obj, sparse, cur.on, cur.offset, stop))

QueryNearby(target, cur, stop) ==
    Asked(Query("Nearby", FALSE, <<>>, <<>>, target, 0), cur, stop,
          Nearby(Col, target, cur.on, cur.offset, stop))

NextQuery ==
    \/ \E id \in QIds, obj \in QObjs, pos \in 1..(Len(index) + 1) : QuerySet(id, obj, pos)
    \/ \E desc \in BOOLEAN, cur \in QCursors, stop \in QStops : QueryScan(desc, cur, stop)
    \/ \E r \in QRanges, desc \in BOOLEAN, cur \in QCursors, stop \in QStops :
          QueryScanRange(r.start, r.end, desc, cur, stop)
    \/ \E id \in QStarts, desc \in BOOLEAN, cur \in QCursors, stop \in QStops :
          QueryScanGreaterOrEqual(id, desc, cur, stop)
    \/ \E desc \in BOOLEAN, cur \in QCursors, stop \in QStops :
          QuerySearchValues(desc, cur, stop)
    \/ \E r \in QValueRanges, desc \in BOOLEAN, cur \in QCursors, stop \in QStops :
          QuerySearchValuesRange(r.start, r.end, desc, cur, stop)
    \/ \E obj \in QAreas, sparse \in 0..MaxSparse, cur \in QCursors, stop \in QStops :
          QueryWithin(obj, sparse, cur, stop)
    \/ \E obj \in QAreas, sparse \in 0..MaxSparse, cur \in QCursors, stop \in QStops :
          QueryIntersects(obj, sparse, cur, stop)
    \/ \E target \in QTargets, cur \in QCursors, stop \in QStops :
          QueryNearby(target, cur, stop)

SpecQuery == InitQuery /\ [][NextQuery]_vars

(***************************************************************************)
(* A geometry workload: Set and Delete calls in any order on a few ids,    *)
(* replacing and removing objects of the R-tree, then one Within,          *)
(* Intersects or Nearby without a cursor and with a callback that always   *)
(* returns true.                                                           *)
(***************************************************************************)
NumGIds == 2
MaxGeoOps == 5

GIds == {IdOf(k) : k \in 1..NumGIds}

\* the objects of the items: those of the query workload, one string, and
\* a spatial object without geometry
GObjs ==
    {PointObj(0, 0), PointObj(QSide \div 2, QSide \div 2),
     RectObj(QSide - 1, QSide - 1, QSide + 1, QSide + 1), EmptyObj, String(<<7>>)}

\* the objects Within and Intersects are asked with: the square, the circle
\* inscribed in it and its lower left quarter
GAreas == QAreas \cup {RectObj(0, 0, QSide \div 2, QSide \div 2)}

NoCursor == [on |-> FALSE, offset |-> 0]

InitGeo ==
    /\ \E isPacked \in BOOLEAN : Starts(NewCollection(isPacked, NumGIds + 1))
    /\ last = [id \in GIds |-> NoObj]
    /\ ret = NoCall
    /\ script = <<>>

\* script keeps the names of the calls made so far
GeoSet(id, obj, pos) ==
    /\ ret.op \notin QueryOps
    /\ ret.n < MaxGeoOps
    /\ FreeAddrs(Col) # {}
    /\ SetReturns(Set(Col, id, obj, TRUE, <<>>, <<>>, pos), id, TRUE, <<>>, <<>>)
    /\ last' = [last EXCEPT ![id] = obj]
    /\ script' = Append(script, IF last[id] = NoObj THEN "Set" ELSE "Replace")

GeoDelete(id) ==
    /\ ret.op \notin QueryOps
    /\ ret.n < MaxGeoOps
    /\ CallReturns("Delete", Delete(Col, id), id, TRUE, <<>>, <<>>)
    /\ last' = [last EXCEPT ![id] = NoObj]
    /\ script' = Append(script, IF last[id] = NoObj THEN "DeleteNone" ELSE "Delete")

GeoWithin(obj) ==
    Asked(Query("Within", FALSE, <<>>, <<>>, obj, 0), NoCursor, {},
          Within(Col, obj, 0, FALSE, 0, {}))

GeoIntersects(obj) ==
    Asked(Query("Intersects", FALSE, <<>>, <<>>, obj, 0), NoCursor, {},
          Intersects(Col, obj, 0, FALSE, 0, {}))

GeoNearby(target) ==
    Asked(Query("Nearby", FALSE, <<>>, <<>>, target, 0), NoCursor, {},
          Nearby(Col, target, FALSE, 0, {}))

NextGeo ==
    \/ \E id \in GIds, obj \in GObjs, pos \in 1..(Len(index) + 1) : GeoSet(id, obj, pos)
    \/ \E id \in GIds : GeoDelete(id)
    \/ \E obj \in GAreas : GeoWithin(obj)
    \/ \E obj \in GAreas : GeoIntersects(obj)
    \/ \E target \in QTargets : GeoNearby(target)

SpecGeo == InitGeo /\ [][NextGeo]_vars

(***************************************************************************)
(* A codec workload: values are appended to a buffer with appendPacked,    *)
(* then the buffer is read with readPacked or skipped with skipPacked.     *)
(* script is the sequence of values appended, ret the last call: the       *)
(* buffer it was made on (data), the bytes an append added, the count      *)
(* asked of skipPacked (k), and what the call returned.                    *)
(***************************************************************************)
MaxVals == 2

\* whole numbers at the edges of the four integer kinds, and the table
CodecWhole ==
    {0, 1, -1, maxInt5, -maxInt5, maxInt5 + 1, -(maxInt5 + 1), maxInt13, -maxInt13,
     maxInt13 + 1, -(maxInt13 + 1), maxInt21, -maxInt21, maxInt21 + 1, -(maxInt21 + 1),
     maxInt29, -maxInt29}
CodecVals == CodecWhole \cup {maxInt29 + k : k \in DOMAIN Floats}

CodecCall(op, data, added, k, value, out, read) ==
    [op |-> op, data |-> data, added |-> added, k |-> k, value |-> value,
     out |-> out, read |-> read]

InitCodec ==
    /\ Starts(NewCollection(TRUE, 1))
    /\ last = <<>>
    /\ ret = CodecCall("New", <<>>, <<>>, 0, 0, <<>>, 0)
    /\ script = <<>>

\* dst = appendPacked(dst, f)
CodecAppend(f) ==
    /\ ret.op \in {"New", "appendPacked"}
    /\ Len(script) < MaxVals
    /\ script' = Append(script, f)
    /\ ret' = CodecCall("appendPacked", appendPacked(ret.data, f),
                        SliceFrom(appendPacked(ret.data, f), Len(ret.data)), 0, 0, <<>>, 0)
    /\ UNCHANGED <<colVars, last>>

\* rest, value = readPacked(dst)
CodecRead ==
    /\ ret.op \in {"New", "appendPacked"}
    /\ ret' = CodecCall("readPacked", ret.data, <<>>, 0, readPacked(ret.data).value,
                        readPacked(ret.data).rest, 0)
    /\ UNCHANGED <<colVars, last, script>>

\* out, read = skipPacked(dst, k)
CodecSkip(k) ==
    /\ ret.op \in {"New", "appendPacked"}
    /\ ret' = CodecCall("skipPacked", ret.data, <<>>, k, 0, skipPacked(ret.data, k).out,
                        skipPacked(ret.data, k).read)
    /\ UNCHANGED <<colVars, last, script>>

NextCodec ==
    \/ \E f \in CodecVals : CodecAppend(f)
    \/ CodecRead
    \/ \E k \in 0..(MaxVals + 1) : CodecSkip(k)

SpecCodec == InitCodec /\ [][NextCodec]_vars

(***************************************************************************)
(* An item workload: a new item, packed or unpacked, takes SetField calls  *)
(* and is read with GetField.  script is the sequence of <<index, value>>  *)
(* pairs written, ret the item and the last call on it.  The item is one   *)
(* of package item with the packed flag, or (flat) one of the package's    *)
(* version without packing.  A CopyOverFields call ends the workload;     *)
(* last is its argument (a sequence of values or an item).                 *)
(***************************************************************************)
MaxSets == 3
MaxFieldIdx == 2

\* zero, whole numbers of one, two and three bytes, a float16 and
\* math.MinInt64
ItemVals == {0, 1, -(maxInt5 + 1), maxInt13 + 1, maxInt29 + 1, maxInt29 + 12}

ItemCall(op, flat, item, idx, value, updated, got) ==
    [op |-> op, flat |-> flat, item |-> item, idx |-> idx, value |-> value,
     updated |-> updated, got |-> got]

InitItem ==
    /\ \E isPacked \in BOOLEAN, flat \in BOOLEAN :
        /\ flat => ~isPacked
        /\ Starts(NewCollection(isPacked, 1))
        /\ ret = ItemCall("New", flat, New(<<1>>, PointObj(0, 0), isPacked), 0, 0, FALSE, 0)
    /\ last = <<>>
    /\ script = <<>>

\* updated = item.SetField(idx, value)
ItemSet(idx, value) ==
    /\ ret.op \in {"New", "SetField", "GetField"}
    /\ Len(script) < MaxSets
    /\ script' = Append(script, <<idx, value>>)
    /\ ret' = IF ret.flat
              THEN ItemCall("SetField", TRUE, FlatSetField(ret.item, idx, value).item,
                            idx, value, FlatSetField(ret.item, idx, value).updated, 0)
              ELSE ItemCall("SetField", FALSE, ItemSetField(ret.item, idx, value).item,
                            idx, value, ItemSetField(ret.item, idx, value).updated, 0)
    /\ UNCHANGED <<colVars, last>>

\* got = item.GetField(idx)
ItemGet(idx) ==
    /\ ret.op \in {"New", "SetField", "GetField"}
    /\ ret' = ItemCall("GetField", ret.flat, ret.item, idx, 0, FALSE,
                       IF ret.flat THEN FlatGetField(ret.item, idx)
                       ELSE GetField(ret.item, idx))
    /\ UNCHANGED <<colVars, last, script>>

\* the value sequences given to CopyOverFields, and the items given to it:
\* new items of either packed flag that were given one of the sequences
CopyVals ==
    {<<>>, <<1>>, <<0, -(maxInt5 + 1)>>, <<maxInt13 + 1, 0>>, <<maxInt29 + 1, 0, 1>>,
     <<maxInt29 + 12>>}
CopyItems ==
    {CopyOverFieldsValues(New(<<2>>, PointObj(1, 1), isPacked), vs) :
        isPacked \in BOOLEAN, vs \in CopyVals}

\* item.CopyOverFields(vs), vs a []float64
ItemCopyValues(vs) ==
    /\ ret.op \in {"New", "SetField"}
    /\ last' = vs
    /\ ret' = ItemCall("CopyOverFields([]float64)", ret.flat,
                       IF ret.flat THEN FlatCopyOverFields(ret.item, vs)
                       ELSE CopyOverFieldsValues(ret.item, vs), 0, 0, FALSE, 0)
    /\ UNCHANGED <<colVars, script>>

\* item.CopyOverFields(from), from an *Item
ItemCopyItem(from) ==
    /\ ret.op \in {"New", "SetField"}
    /\ ret.flat => ~from.isPacked
    /\ last' = from
    /\ ret' = ItemCall("CopyOverFields(*Item)", ret.flat,
                       IF ret.flat THEN FlatCopyOverFields(ret.item, from.fdata)
                       ELSE CopyOverFieldsItem(ret.item, from), 0, 0, FALSE, 0)
    /\ UNCHANGED <<colVars, script>>

NextItem ==
    \/ \E idx \in 0..MaxFieldIdx, value \in ItemVals : ItemSet(idx, value)
    \/ \E idx \in 0..(MaxFieldIdx + 1) : ItemGet(idx)
    \/ \E vs \in CopyVals : ItemCopyValues(vs)
    \/ \E from \in CopyItems : ItemCopyItem(from)

SpecItem == InitItem /\ [][NextItem]_vars

(***************************************************************************)
(* A workload on the item's data block: a new item, packed or unpacked,    *)
(* takes SetField and CopyOverFields calls.  ret.it is the item (header    *)
(* and block), script the calls made.  hugeIdx is the first index whose    *)
(* field ends at byte 2^30 of an unpacked fields section.                  *)
(***************************************************************************)
MaxDataOps == 3

DataId == <<105, 100>>
DataObj == PointObj(0, 0)
DataVals == {0, 1, -(maxInt5 + 1), maxInt13 + 1, maxInt29 + 1}
hugeIdx == Pow2(fieldsLenBits - 3) - 1

DataCall(op, it, updated) == [op |-> op, it |-> it, updated |-> updated]

InitData ==
    /\ \E isPacked \in BOOLEAN :
        /\ Starts(NewCollection(isPacked, 1))
        /\ IF isPacked
           THEN ret = DataCall("New", blockNew(DataId, DataObj, TRUE), FALSE)
           ELSE ret = DataCall("New", blockNew(DataId, DataObj, FALSE), FALSE)
    /\ last = <<>>
    /\ script = <<>>

\* updated = item.SetField(idx, value)
DataSet(idx, value) ==
    /\ Len(script) < MaxDataOps
    /\ idx = hugeIdx => ~blockIsPacked(ret.it)
    /\ script' = Append(script, <<"SetField", idx, value>>)
    /\ ret' = DataCall("SetField", blockSetField(ret.it, idx, value).it,
                       blockSetField(ret.it, idx, value).updated)
    /\ UNCHANGED <<colVars, last>>

\* item.CopyOverFields(vs), vs a []float64
DataCopyValues(vs) ==
    /\ Len(script) < MaxDataOps
    /\ script' = Append(script, <<"CopyOverFields", -1, 0>>)
    /\ ret' = DataCall("CopyOverFields", blockCopyOverFieldsValues(ret.it, vs), FALSE)
    /\ UNCHANGED <<colVars, last>>

\* item.CopyOverFields(from), from a new item given the values vs
DataCopyItem(isPacked, vs) ==
    /\ Len(script) < MaxDataOps
    /\ script' = Append(script, <<"CopyOverFields", -1, 0>>)
    /\ ret' = DataCall("CopyOverFields",
                       blockCopyOverFieldsItem(ret.it,
                           blockCopyOverFieldsValues(
                               blockNew(<<102>>, PointObj(1, 1), isPacked), vs)),
                       FALSE)
    /\ UNCHANGED <<colVars, last>>

NextData ==
    \/ \E idx \in 0..MaxFieldIdx \cup {hugeIdx}, value \in DataVals : DataSet(idx, value)
    \/ \E vs \in CopyVals : DataCopyValues(vs)
    \/ \E isPacked \in BOOLEAN, vs \in CopyVals : DataCopyItem(isPacked, vs)

SpecData == InitData /\ [][NextData]_vars

(***************************************************************************)
(* A long scan.  The closure of Collection.Scan is run over MaxScanned     *)
(* items, one item a step, so that count passes yieldStep more than once;  *)
(* ret.st is the closure's record (count, yields, out, keepon).  The k-th  *)
(* item the tree hands to the closure has the two-byte id of k.            *)
(***************************************************************************)
MaxScanned == 520

ScannedItem(k) == [id |-> <<k \div 256, k % 256>>]

ScanOffsets == {0, 1, yieldStep - 1, yieldStep}
ScanStops == {{}, {ScannedItem(yieldStep + 45).id}}

InitScan ==
    /\ Starts(NewCollection(FALSE, 1))
    /\ \E cursor \in BOOLEAN, offset \in ScanOffsets, stop \in ScanStops :
        ret = [op |-> "iter",
               st |-> EnterCursor(NewIter("scan", FALSE, <<>>, NilObj,
                                          cursor, offset, stop))]
    /\ last = <<>>
    /\ script = <<>>

\* c.items.Scan(iter) hands the next item to the closure, while the closure
\* returns true
ScanStep ==
    /\ ret.op = "iter"
    /\ ret.st.keepon
    /\ ret.st.count < MaxScanned
    /\ ret' = [op |-> "iter", st |-> ScanIter(ret.st, ScannedItem(ret.st.count + 1))]
    /\ UNCHANGED <<colVars, last, script>>

NextScan == ScanStep

SpecScan == InitScan /\ [][NextScan]_vars

(***************************************************************************)
(* The Fields view.  One goroutine calls ForEach and Get on one view of an *)
(* item; a callback of ForEach may itself call ForEach or Get on the same  *)
(* view.  ret.view is the Fields struct (nil, mu, unpacked, values, item), *)
(* ret.stack the calls in progress, innermost last: a frame is at "Lock"   *)
(* (about to take fields.mu), at "loop" (the head of the for statement),   *)
(* or at "iter" (inside the user's callback); vals are the values its loop *)
(* passes, i how many it has passed, locked whether it took fields.mu.     *)
(* ret.got lists the values Get returned, ret.calls counts the calls.      *)
(* script keeps, for every call made, its name, its argument and the       *)
(* values it has passed or returned so far; open tells that the call has   *)
(* not returned, stopped that its callback returned false.                 *)
(***************************************************************************)
MaxDepth == 2
MaxFieldCalls == 3

ViewVals == {<<>>, <<1>>, <<0, -(maxInt5 + 1)>>}
FieldCounts == {-1, 0, 1, 3}

\* itemFields(item) as the struct it builds
FieldsView(item) ==
    [nil |-> ~item.live \/ ~HasFields(item), mu |-> FALSE, unpacked |-> FALSE,
     values |-> <<>>, item |-> item]

\* fields.unpack()
unpack(view) ==
    IF view.unpacked THEN view
    ELSE [view EXCEPT !.values = ForEachField(view.item, -1), !.unpacked = TRUE]

\* the values the loop of the packed ForEach passes: count of them, or all,
\* with 0 past the end of fields.values
PackedLoopVals(view, count) ==
    LET n == IF count < 0 THEN Len(view.values) ELSE count
    IN  [i \in 1..n |-> IF i <= Len(view.values) THEN view.values[i] ELSE 0]

Frame(fn, pc, arg, vals, locked) ==
    [fn |-> fn, pc |-> pc, arg |-> arg, i |-> 0, vals |-> vals, locked |-> locked]

Top(stack) == stack[Len(stack)]
Pop(stack) == SubSeq(stack, 1, Len(stack) - 1)
SetTop(stack, frame) == [stack EXCEPT ![Len(stack)] = frame]

\* the record of a call in script
FieldsCall(fn, arg, out, open) ==
    [fn |-> fn, arg |-> arg, out |-> out, open |-> open, stopped |-> FALSE]

\* the call of the innermost frame: the last one of script that has not returned
LastOpen(calls) ==
    CHOOSE k \in 1..Len(calls) : calls[k].open /\ \A j \in (k + 1)..Len(calls) : ~calls[j].open

\* a call can be made by the goroutine itself or from inside a callback
CanCall ==
    /\ ret.op = "Fields"
    /\ ret.calls < MaxFieldCalls
    /\ Len(ret.stack) < MaxDepth
    /\ ret.stack # <<>> => Top(ret.stack).pc = "iter"

InitFields ==
    /\ \E isPacked \in BOOLEAN, vs \in ViewVals :
        /\ Starts(NewCollection(isPacked, 1))
        /\ ret = [op |-> "Fields",
                  view |-> FieldsView(CopyOverFieldsValues(
                               New(DataId, DataObj, isPacked), vs)),
                  stack |-> <<>>, got |-> <<>>, calls |-> 0]
    /\ last = <<>>
    /\ script = <<>>

\* fields.ForEach(count, iter) up to the first callback or fields.mu.Lock()
FieldsForEach(count) ==
    /\ CanCall
    /\ ret' = [ret EXCEPT
                 !.calls = @ + 1,
                 !.stack =
                    IF ret.view.nil THEN @
                    ELSE IF ~ret.view.item.isPacked
                    THEN Append(@, Frame("ForEach", "loop", count,
                                         ForEachField(ret.view.item, count), FALSE))
                    ELSE Append(@, Frame("ForEach", "Lock", count, <<>>, FALSE))]
    /\ script' = Append(script, FieldsCall("ForEach", count, <<>>, ~ret.view.nil))
    /\ UNCHANGED <<colVars, last>>

\* fields.Get(idx) up to its return or fields.mu.Lock()
FieldsGet(idx) ==
    /\ CanCall
    /\ ret' = [ret EXCEPT
                 !.calls = @ + 1,
                 !.got = IF ret.view.nil THEN Append(@, 0)
                         ELSE IF ~ret.view.item.isPacked
                         THEN Append(@, GetField(ret.view.item, idx))
                         ELSE @,
                 !.stack = IF ~ret.view.nil /\ ret.view.item.isPacked
                           THEN Append(@, Frame("Get", "Lock", idx, <<>>, FALSE))
                           ELSE @]
    /\ script' = Append(script,
                        IF ret.view.nil THEN FieldsCall("Get", idx, <<0>>, FALSE)
                        ELSE IF ~ret.view.item.isPacked
                        THEN FieldsCall("Get", idx, <<GetField(ret.view.item, idx)>>, FALSE)
                        ELSE FieldsCall("Get", idx, <<>>, TRUE))
    /\ UNCHANGED <<colVars, last>>

\* fields.mu.Lock() returns when the mutex is free; Get then reads its value
\* and unlocks, ForEach enters its loop with the mutex held
FieldsLock ==
    /\ ret.op = "Fields"
    /\ ret.stack # <<>>
    /\ Top(ret.stack).pc = "Lock"
    /\ ~ret.view.mu
    /\ IF Top(ret.stack).fn = "Get"
       THEN ret' = [ret EXCEPT
                      !.view = unpack(ret.view),
                      !.got = Append(@, IF Top(ret.stack).arg < Len(unpack(ret.view).values)
                                        THEN unpack(ret.view).values[Top(ret.stack).arg + 1]
                                        ELSE 0),
                      !.stack = Pop(@)]
       ELSE ret' = [ret EXCEPT
                      !.view = [unpack(ret.view) EXCEPT !.mu = TRUE],
                      !.stack = SetTop(@, [Top(@) EXCEPT
                                    !.pc = "loop", !.locked = TRUE,
                                    !.vals = PackedLoopVals(unpack(ret.view),
                                                            Top(ret.stack).arg)])]
    /\ script' = IF Top(ret.stack).fn = "Get"
                 THEN [script EXCEPT ![LastOpen(script)].out = <<ret'.got[Len(ret'.got)]>>,
                                     ![LastOpen(script)].open = FALSE]
                 ELSE script
    /\ UNCHANGED <<colVars, last>>

\* the return of a ForEach: the deferred fields.mu.Unlock() of the packed one
FieldsReturn(r) ==
    [r EXCEPT !.view.mu = IF Top(r.stack).locked THEN FALSE ELSE @,
              !.stack = Pop(@)]

\* the head of the loop: the next value is passed to the callback, or the
\* loop ends and ForEach returns
FieldsLoop ==
    /\ ret.op = "Fields"
    /\ ret.stack # <<>>
    /\ Top(ret.stack).pc = "loop"
    /\ IF Top(ret.stack).i < Len(Top(ret.stack).vals)
       THEN ret' = [ret EXCEPT !.stack = SetTop(@, [Top(@) EXCEPT !.pc = "iter",
                                                                  !.i = @ + 1])]
       ELSE ret' = FieldsReturn(ret)
    /\ script' = IF Top(ret.stack).i < Len(Top(ret.stack).vals)
                 THEN [script EXCEPT ![LastOpen(script)].out =
                                        Append(@, Top(ret.stack).vals[Top(ret.stack).i + 1])]
                 ELSE [script EXCEPT ![LastOpen(script)].open = FALSE]
    /\ UNCHANGED <<colVars, last>>

\* the callback returns keepon
FieldsIterReturn(keepon) ==
    /\ ret.op = "Fields"
    /\ ret.stack # <<>>
    /\ Top(ret.stack).pc = "iter"
    /\ IF keepon
       THEN ret' = [ret EXCEPT !.stack = SetTop(@, [Top(@) EXCEPT !.pc = "loop"])]
       ELSE ret' = FieldsReturn(ret)
    /\ script' = IF keepon THEN script
                 ELSE [script EXCEPT ![LastOpen(script)].open = FALSE,
                                     ![LastOpen(script)].stopped = TRUE]
    /\ UNCHANGED <<colVars, last>>

NextFields ==
    \/ \E count \in FieldCounts : FieldsForEach(count)
    \/ \E idx \in 0..MaxFieldIdx : FieldsGet(idx)
    \/ FieldsLock
    \/ FieldsLoop
    \/ \E keepon \in BOOLEAN : FieldsIterReturn(keepon)

SpecFields == InitFields /\ [][NextFields]_vars

(***************************************************************************)
(* A deep tree.  BTree.Set is called with DeepKeys keys in ascending order *)
(* on an empty tree, so that the root of a two-level tree is split and the *)
(* tree gets three levels, and then BTree.Delete drains the keys in        *)
(* ascending order.  script counts the sets (k) and the deletes (d) made.  *)
(***************************************************************************)
DeepKeys == 580

\* the fill may stop at these counts
DeepTurns == {48, DeepKeys - 1, DeepKeys}

InitDeep ==
    /\ Starts(NewCollection(FALSE, DeepKeys))
    /\ last = <<>>
    /\ ret = [op |-> "New", id |-> <<>>, ok |-> FALSE]
    /\ script = [phase |-> "fill", k |-> 0, d |-> 0]

\* replaced = tr.Set(item) with the item of the next key
DeepSet ==
    /\ script.phase = "fill"
    /\ script.k < DeepKeys
    /\ heap' = [heap EXCEPT ![script.k + 1] = New(BulkKey(script.k), PointObj(0, 0), FALSE)]
    /\ items' = BTreeSet(heap', items, script.k + 1).tree
    /\ ret' = [op |-> "Set", id |-> BulkKey(script.k),
               ok |-> BTreeSet(heap', items, script.k + 1).replaced]
    /\ script' = [script EXCEPT !.k = @ + 1]
    /\ UNCHANGED <<index, values, packed, fieldMap, weight, points, objects, nobjects, last>>

\* the fill stops
DeepTurn ==
    /\ script.phase = "fill"
    /\ script.k \in DeepTurns
    /\ script' = [script EXCEPT !.phase = "drain"]
    /\ UNCHANGED <<colVars, last, ret>>

\* deleted = tr.Delete(key) with the next key
DeepDelete ==
    /\ script.phase = "drain"
    /\ script.d < script.k
    /\ items' = BTreeDelete(heap, items, BulkKey(script.d)).tree
    /\ ret' = [op |-> "Delete", id |-> BulkKey(script.d),
               ok |-> BTreeDelete(heap, items, BulkKey(script.d)).deleted]
    /\ script' = [script EXCEPT !.d = @ + 1]
    /\ UNCHANGED <<heap, index, values, packed, fieldMap, weight, points, objects,
                   nobjects, last>>

NextDeep == DeepSet \/ DeepTurn \/ DeepDelete

SpecDeep == InitDeep /\ [][NextDeep]_vars

(***************************************************************************)
(* Properties of the collection                                            *)
(***************************************************************************)
\* the items of the collection: what the identifier B-tree holds
LiveAddrs == nodeAddrs(items.root, items.height)
LiveIds == {heap[a].id : a \in LiveAddrs}

RECURSIVE SumWeights(_)
SumWeights(S) ==
    IF S = {} THEN 0
    ELSE LET a == CHOOSE x \in S : TRUE
         IN  WeightAndPoints(heap[a]).weight + SumWeights(S \ {a})

\* the weight the claim gives an item: points*16 or len(value), plus the
\* field bytes, plus the id bytes
ClaimedWeight(item) ==
    (IF item.obj.spatial THEN item.obj.npoints * 16 ELSE Len(item.obj.str))
      + (IF item.isPacked THEN Len(item.fdata) ELSE 8 * Len(item.fdata))
      + Len(item.id)

\* C1: after any sequence of Set, Delete, SetField and SetFields calls,
\* TotalWeight() is the sum of the weights of the items in the collection,
\* each weight being points*16 (spatial) or len(value) (string) plus the
\* field byte length plus the id length.
C1_TotalWeight ==
    /\ TotalWeight(Col) = SumWeights(LiveAddrs)
    /\ \A a \in LiveAddrs : WeightAndPoints(heap[a]).weight = ClaimedWeight(heap[a])

\* a SetField has just changed an item that carries fields, next to another item
C1_Witness ==
    /\ ret.op = "SetField" /\ ret.ok
    /\ Cardinality(LiveAddrs) = 2
    /\ \E a \in LiveAddrs : Len(heap[a].fdata) = 2 /\ heap[a].fdata # <<0, 0>>

(***************************************************************************)
(* C2: where an item is indexed                                            *)
(***************************************************************************)
InRTree(a) == \E k \in 1..Len(index) : index[k].item = a
InValues(a) == \E k \in 1..Len(values) : values[k] = a
IsGeometry(a) == objIsSpatial(heap[a].obj) /\ ~heap[a].obj.empty

\* C2 as stated: an item is in the R-tree iff its object is spatial and
\* non-empty, and every other item, a spatial item with an empty object
\* included, is in the value B-tree.
C2_AsStated ==
    \A a \in LiveAddrs :
        /\ InRTree(a) <=> IsGeometry(a)
        /\ ~IsGeometry(a) => InValues(a)

\* C2, amended: an item is in the R-tree iff its object is spatial and
\* non-empty, it is in the value B-tree iff its object is not spatial, and a
\* spatial item whose object is empty is in neither; both indexes hold items
\* of the collection only, each at most once.
C2_Indexes ==
    /\ \A a \in LiveAddrs :
          /\ InRTree(a) <=> IsGeometry(a)
          /\ InValues(a) <=> ~objIsSpatial(heap[a].obj)
    /\ \A k \in 1..Len(index) :
          /\ index[k].item \in LiveAddrs
          /\ \A j \in 1..Len(index) : index[j].item = index[k].item => j = k
    /\ \A k \in 1..Len(values) :
          /\ values[k] \in LiveAddrs
          /\ \A j \in 1..Len(values) : values[j] = values[k] => j = k

\* a Set has just stored an empty spatial object next to an item that is indexed
C2_Witness ==
    /\ ret.op = "Set"
    /\ \E a \in LiveAddrs : heap[a].id = ret.id /\ objIsSpatial(heap[a].obj) /\ heap[a].obj.empty
    /\ \E b \in LiveAddrs : InRTree(b) \/ InValues(b)

(***************************************************************************)
(* C4: calls on an id that is not in the collection                        *)
(***************************************************************************)
AbsentIds == Ids \ LiveIds

\* C4: Delete, Get, SetField and SetFields on an id that is not in the
\* collection return ok=false with nil/zero results, and the step leaves the
\* whole collection (items, both indexes, the counters, the weight and the
\* field-name map) as it was.
C4_AbsentId ==
    /\ [][(ret'.op \in {"Delete", "Get", "SetField", "SetFields"} /\ ret'.id \in AbsentIds)
             => (~ret'.ok /\ Col' = Col)]_vars
    /\ [](\A id \in AbsentIds :
            /\ Delete(Col, id) = [c |-> Col, obj |-> NilObj, fields |-> NilFields, ok |-> FALSE]
            /\ Get(Col, id) = [obj |-> NilObj, fields |-> NilFields, ok |-> FALSE]
            /\ \A nm \in FieldNames, v \in FieldVals :
                  SetField(Col, id, nm, v)
                    = [c |-> Col, obj |-> NilObj, fields |-> NilFields,
                       updated |-> FALSE, ok |-> FALSE]
            /\ \A args \in SetFieldsArgs :
                  SetFields(Col, id, args.fields, args.vals)
                    = [c |-> Col, obj |-> NilObj, fields |-> NilFields,
                       updatedCount |-> 0, ok |-> FALSE])

\* a SetField with a name the map does not know was just called on an absent
\* id while another item is in the collection
C4_Witness ==
    /\ ret.op = "SetField" /\ ~ret.ok
    /\ ret.id \in AbsentIds
    /\ LiveAddrs # {}
    /\ fieldMap[ret.fields[1]] = NoIndex

(***************************************************************************)
(* C5: the fields of a replaced item                                       *)
(***************************************************************************)
FieldIdxs == 0..(Cardinality(FieldNames) - 1)
AddrOf(h, tr, id) == BTreeGet(h, tr, id).item

\* the value the call gives the field with index i: that of the last name
\* with this index, zero when the values run out
RECURSIVE GivenFrom(_, _, _, _, _)
GivenFrom(fm, fields, vals, i, k) ==
    IF k = 0 THEN [named |-> FALSE, value |-> 0]
    ELSE IF fm[fields[k]] = i
         THEN [named |-> TRUE, value |-> IF k <= Len(vals) THEN vals[k] ELSE 0]
         ELSE GivenFrom(fm, fields, vals, i, k - 1)
Given(fm, fields, vals, i) == GivenFrom(fm, fields, vals, i, Len(fields))

\* C5: when Set replaces an item, the new item starts from the old item's
\* fields: with no names and no values its fields are the old item's, with
\* names its fields are the old ones with exactly the named fields overwritten
\* by the given values.
C5_InheritFields ==
    [][(ret'.op = "Set" /\ ret'.ok) =>
         LET old == heap[AddrOf(heap, items, ret'.id)]
             new == heap'[AddrOf(heap', items', ret'.id)]
         IN  /\ (Len(ret'.fields) = 0 /\ Len(ret'.vals) = 0) =>
                   \A i \in FieldIdxs : GetField(new, i) = GetField(old, i)
             /\ (~ret'.nil /\ Len(ret'.fields) > 0) =>
                   \A i \in FieldIdxs :
                      LET g == Given(fieldMap', ret'.fields, ret'.vals, i)
                      IN  GetField(new, i) = IF g.named THEN g.value ELSE GetField(old, i)
      ]_vars

\* a Set with names has just replaced an item and the new item carries a
\* non-zero field the call did not name
C5_Witness ==
    /\ ret.op = "Set" /\ ret.ok /\ ~ret.nil /\ Len(ret.fields) > 0
    /\ \E a \in LiveAddrs :
          /\ heap[a].id = ret.id
          /\ \E i \in FieldIdxs :
                /\ GetField(heap[a], i) # 0
                /\ ~Given(fieldMap, ret.fields, ret.vals, i).named

(***************************************************************************)
(* C6: the field-name map                                                  *)
(***************************************************************************)
UsedNames == {nm \in FieldNames : fieldMap[nm] # NoIndex}

\* C6: the field-name map is a bijection from the names used so far onto
\* 0..n-1, a name that has an index keeps it through every later call, the
\* names a call registers are in the map after it, and FieldArr()[i] is the
\* name whose index is i.
C6_FieldMap ==
    /\ [](/\ {fieldMap[nm] : nm \in UsedNames} = 0..(Cardinality(UsedNames) - 1)
          /\ \A n1, n2 \in UsedNames : fieldMap[n1] = fieldMap[n2] => n1 = n2
          /\ DOMAIN FieldArr(Col) = 0..(Cardinality(UsedNames) - 1)
          /\ \A nm \in UsedNames : FieldArr(Col)[fieldMap[nm]] = nm)
    /\ [][/\ \A nm \in UsedNames : fieldMap'[nm] = fieldMap[nm]
          /\ (ret'.op = "Set" \/ (ret'.op \in {"SetField", "SetFields"} /\ ret'.ok))
                => \A k \in 1..Len(ret'.fields) : fieldMap'[ret'.fields[k]] # NoIndex]_vars

\* both names are in the map, the second one registered by the last call,
\* a SetField or SetFields
C6_Witness ==
    /\ ret.op \in {"SetField", "SetFields"} /\ ret.ok
    /\ UsedNames = FieldNames
    /\ \E k \in 1..Len(ret.fields) : fieldMap[ret.fields[k]] = Cardinality(FieldNames) - 1

(***************************************************************************)
(* Properties of the bulk workload                                         *)
(***************************************************************************)
\* the ids a Set has given an object that no later Delete took away
BulkLive == {id \in BulkIds : last[id] # NoObj}

\* sq holds each id of S once and no other, in strictly ascending order
\* (descending when desc)
InOrder(sq, S, desc) ==
    /\ Len(sq) = Cardinality(S)
    /\ {sq[k] : k \in 1..Len(sq)} = S
    /\ \A k \in 1..(Len(sq) - 1) :
          IF desc THEN StrLess(sq[k + 1], sq[k]) ELSE StrLess(sq[k], sq[k + 1])

\* the ids of the items the nodes of the identifier B-tree hold, node by
\* node, each as often as the tree holds it
RECURSIVE nodeIdsFrom(_, _, _)
nodeIds(n, height) == nodeIdsFrom(n, height, 0)
nodeIdsFrom(n, height, i) ==
    IF i > n.numItems THEN <<>>
    ELSE (IF height > 0 THEN nodeIdsFrom(n.children[i], height - 1, 0) ELSE <<>>)
           \o (IF i < n.numItems THEN <<heap[n.items[i]].id>> ELSE <<>>)
           \o nodeIdsFrom(n, height, i + 1)

TreeIds == IF IsNilNode(items.root) THEN <<>> ELSE nodeIds(items.root, items.height)

\* C3: after any sequence of Set and Delete calls the identifier B-tree
\* holds exactly one item per live id, and Get(id) returns ok = true with the
\* object of the most recent Set(id) when no Delete(id) followed it, and
\* ok = false (with the nil object) otherwise.
C3_OneItemPerId ==
    /\ ret.op \in BulkCalls =>
          /\ Len(TreeIds) = Cardinality(BulkLive)
          /\ {TreeIds[k] : k \in 1..Len(TreeIds)} = BulkLive
          /\ BTreeLen(items) = Cardinality(BulkLive)
          /\ \A id \in BulkIds \cup BulkPivots :
                Get(Col, id) = [obj |-> IF id \in BulkLive THEN last[id] ELSE NilObj,
                                fields |-> NilFields, ok |-> id \in BulkLive]
    /\ ret.op = "Get" =>
          /\ ret.ok = (ret.id \in BulkLive)
          /\ ret.obj = IF ret.id \in BulkLive THEN last[ret.id] ELSE NilObj

\* a Get of a live id that was set twice, the tree having more than one
\* node and some ids deleted
C3_Witness ==
    /\ ret.op = "Get" /\ ret.ok
    /\ script.phase = "drain" /\ script.d > 0
    /\ items.height > 0
    /\ \E i \in (NumKeys + 1)..script.k : ret.id = OrderKey(script.fill, i)

\* C7: Scan(desc = false) with no cursor passes every item of the
\* collection to the callback exactly once in strictly ascending id order,
\* and Scan(desc = true) exactly once in strictly descending id order.
C7_ScanOrder ==
    ret.op = "Scan" => (InOrder(ret.out, BulkLive, ret.desc) /\ ret.ok)

\* a descending Scan over a tree of more than one node, after deletions
C7_Witness ==
    /\ ret.op = "Scan" /\ ret.desc
    /\ items.height > 0 /\ script.d > 0
    /\ Len(ret.out) > maxItems

\* C8: for any tree contents and any pivot, present or not, Ascend(pivot)
\* yields exactly the items with id >= pivot in ascending order and
\* Descend(pivot) exactly the items with id <= pivot in descending order.
C8_AscendDescend ==
    /\ ret.op = "Ascend" =>
          InOrder(ret.out, {id \in BulkLive : StrLeq(ret.id, id)}, FALSE)
    /\ ret.op = "Descend" =>
          InOrder(ret.out, {id \in BulkLive : StrLeq(id, ret.id)}, TRUE)

\* a Descend from a pivot that is in the tree, in an inner node's child,
\* yielding items of more than one node
C8_Witness ==
    /\ ret.op = "Descend" /\ items.height > 0
    /\ ret.id \in BulkLive
    /\ Len(ret.out) > maxItems
    /\ Len(ret.out) < Cardinality(BulkLive)

(***************************************************************************)
(* Properties of the queries                                               *)
(***************************************************************************)
Ones(n) == [i \in 1..n |-> 1]

Drop(sq, k) == SubSeq(sq, k + 1, Len(sq))

\* Nearby returns before it touches the cursor: the target is a circle with
\* a radius and no entry of the R-tree meets the square around it
NearbyFastFails(target) ==
    /\ target.circle /\ target.meters > 0
    /\ \A k \in 1..Len(index) :
          ~RectIntersects(<<Center(target)[1] - target.meters, Center(target)[2] - target.meters>>,
                          <<Center(target)[1] + target.meters, Center(target)[2] + target.meters>>,
                          index[k].min, index[k].max)

\* the object with this id meets the predicate of the Within or Intersects asked
Matches(op, id, obj) ==
    IF op = "Within" THEN ObjWithin(last[id], obj) ELSE ObjIntersects(last[id], obj)

\* C9 as stated: with a cursor, every query calls Step(offset) exactly once
\* at entry, then Step(1) exactly once for each result passed to the
\* callback, and makes no Step call for a candidate it does not pass.
C9_AsStated ==
    (ret.op \in QueryOps /\ ret.cursor) =>
        ret.steps = <<ret.offset>> \o Ones(Len(ret.out))

\* C9 amended: with a cursor, every query calls Step(offset) exactly once
\* at entry, except Nearby when it returns at its fast-fail test, which
\* makes no call on the cursor; then it calls Step(1) exactly once for each
\* candidate its closure receives after the first offset ones, before it
\* decides whether to pass the candidate on: that is once per result passed
\* to the callback in Scan, ScanGreaterOrEqual, SearchValues,
\* SearchValuesRange and Nearby, once more in ScanRange for the item that
\* reaches the end bound, and once more in Within and Intersects (sparse
\* or not) for each such candidate that fails the predicate.
C9_CursorSteps ==
    (ret.op \in QueryOps /\ ret.cursor) =>
        IF ret.op = "Nearby" /\ NearbyFastFails(ret.obj)
        THEN ret.steps = <<>> /\ ret.out = <<>>
        ELSE /\ ret.steps = <<ret.offset>> \o Ones(Len(ret.out) + Len(ret.unpassed))
             /\ Len(ret.out) + Len(ret.unpassed) =
                    IF ret.count > ret.offset THEN ret.count - ret.offset ELSE 0
             /\ ret.op \notin {"ScanRange", "Within", "Intersects"} => ret.unpassed = <<>>
             /\ ret.op = "ScanRange" =>
                    /\ Len(ret.unpassed) <= 1
                    /\ \A k \in 1..Len(ret.unpassed) :
                          IF ret.desc THEN StrLeq(ret.unpassed[k], ret.end)
                          ELSE StrLeq(ret.end, ret.unpassed[k])
             /\ ret.op \in {"Within", "Intersects"} =>
                    \A k \in 1..Len(ret.unpassed) : ~Matches(ret.op, ret.unpassed[k], ret.obj)

\* Within with a cursor at offset 1 that passed a result and stepped for a
\* candidate it did not pass
C9_Witness ==
    /\ ret.op = "Within" /\ ret.cursor /\ ret.offset = 1 /\ ret.sparse = 0
    /\ ret.out # <<>> /\ ret.unpassed # <<>>
    /\ ret.steps = <<1, 1, 1>>

\* the query of ret asked again on the same collection
RunQuery(c, q, on, offset, stop) ==
    IF q.op = "Scan" THEN Scan(c, q.desc, on, offset, stop)
    ELSE IF q.op = "ScanRange" THEN ScanRange(c, q.start, q.end, q.desc, on, offset, stop)
    ELSE IF q.op = "ScanGreaterOrEqual"
         THEN ScanGreaterOrEqual(c, q.start, q.desc, on, offset, stop)
    ELSE IF q.op = "SearchValues" THEN SearchValues(c, q.desc, on, offset, stop)
    ELSE IF q.op = "SearchValuesRange"
         THEN SearchValuesRange(c, q.start, q.end, q.desc, on, offset, stop)
    ELSE IF q.op = "Within" THEN Within(c, q.obj, q.sparse, on, offset, stop)
    ELSE IF q.op = "Intersects" THEN Intersects(c, q.obj, q.sparse, on, offset, stop)
    ELSE Nearby(c, q.obj, on, offset, stop)

\* the ids of the entries of the R-tree whose box meets the rectangle of
\* obj, in the order a search meets them
Candidates(obj) ==
    LET hit(e) == RectIntersects(obj.min, obj.max, e.min, e.max)
        es == SelectSeq(index, hit)
    IN  [k \in 1..Len(es) |-> heap[es[k].item].id]

\* C10 as stated: for every query and every cursor offset k, the results
\* passed to the callback are those the same query passes with offset 0 on
\* the same collection, without the first k (the callback returning true).
C10_AsStated ==
    (ret.op \in QueryOps /\ ret.cursor /\ ret.stop = {}) =>
        ret.out = Drop(RunQuery(Col, ret, TRUE, 0, {}).st.out, ret.offset)

\* C10 amended: that holds of Scan, ScanRange, ScanGreaterOrEqual,
\* SearchValues, SearchValuesRange and Nearby.  In Within and Intersects
\* with sparse = 0 the offset skips the first k candidates of the R-tree
\* search, matching or not: the results are the matching ones among the
\* candidates after the first k.  Nothing is stated for sparse > 0.
C10_OffsetSkips ==
    (ret.op \in QueryOps /\ ret.cursor /\ ret.stop = {}) =>
        IF ret.op \in {"Within", "Intersects"}
        THEN ret.sparse = 0 =>
                LET meets(id) == Matches(ret.op, id, ret.obj)
                IN  ret.out = SelectSeq(Drop(Candidates(ret.obj), ret.offset), meets)
        ELSE ret.out = Drop(RunQuery(Col, ret, TRUE, 0, {}).st.out, ret.offset)

\* Within at offset 1 whose first candidate was no match: it passes the
\* results of offset 0, none removed
C10_Witness ==
    /\ ret.op = "Within" /\ ret.cursor /\ ret.offset = 1 /\ ret.sparse = 0
    /\ ret.stop = {} /\ ret.out # <<>>
    /\ ret.out = RunQuery(Col, ret, TRUE, 0, {}).st.out

\* the results the query of ret passes when the callback never returns false
Unstopped == RunQuery(Col, ret, ret.cursor, ret.offset, {}).st.out

\* C11: in every query operation (identifier scans, value scans, Within and
\* Intersects with sparse = 0 or > 0, Nearby), once the callback has
\* returned false it is not invoked again during that query call: an id on
\* which the callback returns false is the last id passed to it.
C11_StopsAtFalse ==
    ret.op \in QueryOps =>
        \A k \in 1..Len(ret.out) : ret.out[k] \in ret.stop => k = Len(ret.out)

\* a sparse query whose callback returned false while quadrants with
\* further results were still to be searched
C11_Witness ==
    /\ ret.op \in {"Within", "Intersects"} /\ ret.sparse > 0
    /\ ret.out # <<>> /\ ret.out[Len(ret.out)] \in ret.stop
    /\ Len(ret.out) < Len(Unstopped)

\* the ids that have an object
GeoLive == {id \in DOMAIN last : last[id] # NoObj}

\* C12: with sparse = 0 and no cursor, after any sequence of Set and Delete
\* calls, Within(q) passes to the callback exactly the items whose object is
\* fully within q and Intersects(q) exactly the items whose object
\* intersects q, each once: none missed, none that does not match.
C12_ExactMatches ==
    (ret.op \in {"Within", "Intersects"} /\ ret.sparse = 0 /\ ~ret.cursor /\ ret.stop = {}) =>
        /\ {ret.out[k] : k \in 1..Len(ret.out)} =
               {id \in GeoLive : Matches(ret.op, id, ret.obj)}
        /\ \A j, k \in 1..Len(ret.out) : ret.out[j] = ret.out[k] => j = k
        /\ ret.ok

\* Within asked after an object was deleted and another replaced: one item
\* matches, another live item is a candidate of the search and does not
C12_Witness ==
    /\ ret.op = "Within" /\ ret.sparse = 0 /\ ~ret.cursor
    /\ \E j, k \in 1..Len(script) : script[j] = "Delete" /\ script[k] = "Replace"
    /\ Len(ret.out) = 1
    /\ Len(Candidates(ret.obj)) > 1

\* the ids in a sequence
Range(sq) == {sq[k] : k \in 1..Len(sq)}

\* the query of ret with sparse = 0 in place of its sparse
Unsparse == [ret EXCEPT !.sparse = 0]

\* C13 as stated: with sparse > 0, every id Within or Intersects passes to
\* the callback is a true match of the predicate, and the set of ids passed
\* is a subset of the set the same query (same object, same cursor, same
\* callback) passes with sparse = 0.
C13_AsStated ==
    (ret.op \in {"Within", "Intersects"} /\ ret.sparse > 0) =>
        /\ \A k \in 1..Len(ret.out) : Matches(ret.op, ret.out[k], ret.obj)
        /\ Range(ret.out) \subseteq
               Range(RunQuery(Col, Unsparse, ret.cursor, ret.offset, ret.stop).st.out)

\* C13 amended: with sparse > 0, every id Within or Intersects passes to
\* the callback is a true match of the predicate, and the set of ids passed
\* is a subset of the set the query passes with sparse = 0 when that one is
\* asked without a cursor and with a callback that always returns true.
C13_SparseSubset ==
    (ret.op \in {"Within", "Intersects"} /\ ret.sparse > 0) =>
        /\ \A k \in 1..Len(ret.out) : Matches(ret.op, ret.out[k], ret.obj)
        /\ Range(ret.out) \subseteq Range(RunQuery(Col, Unsparse, FALSE, 0, {}).st.out)

\* a sparse query at a cursor offset, its callback always returning true,
\* that passed a match and left another match out
C13_Witness ==
    /\ ret.op \in {"Within", "Intersects"} /\ ret.sparse > 0
    /\ ret.cursor /\ ret.offset > 0 /\ ret.stop = {}
    /\ ret.out # <<>>
    /\ Range(ret.out) # Range(RunQuery(Col, Unsparse, FALSE, 0, {}).st.out)

\* the ids of the items in the R-tree, and the squared distance from the
\* centre of the target to the box of an item
Indexed == {id \in GeoLive : last[id].spatial /\ ~last[id].empty}

CenterDist(id, target) ==
    BoxDist(Center(target), Center(target), last[id].min, last[id].max)

\* the ids of out come at non-decreasing distance from the target
ByDistance(out, target) ==
    \A k \in 1..(Len(out) - 1) : CenterDist(out[k], target) <= CenterDist(out[k + 1], target)

\* every indexed id is in out exactly once
EachOnce(out) ==
    /\ Range(out) = Indexed
    /\ Len(out) = Cardinality(Indexed)

\* C14 as stated: Nearby(target) with no cursor passes the items of the
\* R-tree in non-decreasing squared box distance between the item's box and
\* the centre of the target, and passes every indexed item exactly once
\* when the callback always returns true.
C14_AsStated ==
    (ret.op = "Nearby" /\ ~ret.cursor) =>
        /\ ByDistance(ret.out, ret.obj)
        /\ ret.stop = {} => EachOnce(ret.out)

\* C14 amended: that holds unless the target is a circle with positive
\* radius and no entry of the R-tree meets its bounding rectangle; then
\* Nearby passes nothing.
C14_NearbyOrder ==
    (ret.op = "Nearby" /\ ~ret.cursor) =>
        IF NearbyFastFails(ret.obj) THEN ret.out = <<>>
        ELSE /\ ByDistance(ret.out, ret.obj)
             /\ ret.stop = {} => EachOnce(ret.out)

\* Nearby without a cursor passed three items, the second farther from the
\* target than the first, the R-tree holding them in another order
C14_Witness ==
    /\ ret.op = "Nearby" /\ ~ret.cursor /\ ret.stop = {}
    /\ Len(ret.out) = 3
    /\ CenterDist(ret.out[1], ret.obj) < CenterDist(ret.out[2], ret.obj)
    /\ heap[index[1].item].id = ret.out[3]

\* C15: when the Nearby target is a circle with positive radius and no
\* indexed item's box intersects the circle's bounding rectangle, Nearby
\* invokes the callback zero times and returns true.
C15_FastFail ==
    (ret.op = "Nearby" /\ ret.obj.circle /\ ret.obj.meters > 0
        /\ \A id \in Indexed :
              ~RectIntersects(ret.obj.min, ret.obj.max, last[id].min, last[id].max)) =>
        ret.out = <<>> /\ ret.ok

\* Nearby around a circle far from the three items of the R-tree
C15_Witness ==
    /\ ret.op = "Nearby" /\ ret.obj.circle /\ ret.obj.meters > 0
    /\ Cardinality(Indexed) = NumQIds
    /\ \A id \in Indexed :
          ~RectIntersects(ret.obj.min, ret.obj.max, last[id].min, last[id].max)
    /\ ret.out = <<>> /\ ret.ok

\* the target of ret is a circle without radius around a point that is in
\* no indexed item's box
ZeroRadiusApart ==
    /\ ret.op = "Nearby" /\ ret.obj.circle /\ ret.obj.meters = 0
    /\ \A id \in Indexed :
          ~RectIntersects(ret.obj.min, ret.obj.max, last[id].min, last[id].max)

\* C16 as stated: when the Nearby target is a zero-radius circle whose
\* bounding rectangle contains no indexed item, the result set of Nearby is
\* empty (the callback is never invoked).
C16_AsStated == ZeroRadiusApart => ret.out = <<>>

\* C16 amended: for such a target Nearby makes no probe and runs the
\* nearest-neighbour traversal: with no cursor offset and a callback that
\* always returns true it passes every indexed item once, nearest first,
\* so the result set is empty only when the R-tree is.
C16_ZeroRadius ==
    (ZeroRadiusApart /\ ret.offset = 0 /\ ret.stop = {}) =>
        /\ EachOnce(ret.out)
        /\ ByDistance(ret.out, ret.obj)
        /\ ret.ok

\* Nearby around a zero-radius circle apart from the three items it passed
C16_Witness ==
    /\ ZeroRadiusApart /\ ret.offset = 0 /\ ret.stop = {}
    /\ Len(ret.out) = NumQIds

(***************************************************************************)
(* Properties of the codec                                                 *)
(***************************************************************************)
\* C17: for every finite value f (whole numbers up to and beyond the 29-bit
\* range, positive and negative, and the extremes of the 64-bit integer
\* range), decoding the bytes of appendPacked(empty, f) with readPacked
\* returns the value f and an empty remainder.
C17_RoundTrip ==
    (ret.op = "readPacked" /\ Len(script) = 1) =>
        ret.value = script[1] /\ ret.out = <<>>

\* C18: for every sequence xs of values encoded back to back and every k
\* with 0 <= k <= len(xs), skipPacked(bytes, k) reports k values skipped
\* and returns exactly the bytes that encode xs[k..], so that decoding the
\* remainder yields xs[k..]; for k > len(xs) it reports len(xs) and returns
\* an empty remainder.
C18_SkipThenRead ==
    ret.op = "skipPacked" =>
        IF ret.k <= Len(script)
        THEN /\ ret.read = ret.k
             /\ ret.out = packedGenerateFieldBytes(SubSeq(script, ret.k + 1, Len(script)))
             /\ packedReadAll(ret.out) = SubSeq(script, ret.k + 1, Len(script))
        ELSE ret.read = Len(script) /\ ret.out = <<>>

\* the integer kind a whole number of magnitude a fits
KindOf(a) ==
    IF a <= maxInt5 THEN 0 ELSE IF a <= maxInt13 THEN 1 ELSE IF a <= maxInt21 THEN 2 ELSE 3

\* the number the bytes b[from..] stand for, most significant byte first
RECURSIVE BigEndian(_, _)
BigEndian(b, from) ==
    IF from > Len(b) THEN 0
    ELSE b[from] * Pow2(8 * (Len(b) - from)) + BigEndian(b, from + 1)

RECURSIVE LastWritten(_, _, _)
LastWritten(sc, n, idx) ==
    IF n = 0 THEN 0
    ELSE IF sc[n][1] = idx THEN sc[n][2]
    ELSE LastWritten(sc, n - 1, idx)

\* C20: after any sequence of Item.SetField(i, v) calls on a new item, in
\* packed and in unpacked mode, GetField(i) returns the value most recently
\* written to index i, and GetField(j) returns 0 for every index j that was
\* never written.
C20_SetThenGet ==
    ret.op = "GetField" => ret.got = LastWritten(script, Len(script), ret.idx)

\* C21: Item.SetField(i, v) returns true if and only if the call changes
\* the item's stored value at index i or its stored field count; in
\* particular writing the value an index already holds returns false.
\* (A change is read as any change of the item's fields section.)
C21_UpdatedIffChanged ==
    [][(ret'.op = "SetField" /\ script' # script) =>
        (ret'.updated <=> ret'.item.fdata # ret.item.fdata)]_vars

\* C22: Item.SetField(i, 0) with i at or past the current stored field
\* count returns false and leaves the item's field storage, field byte
\* length and weight unchanged, in packed mode and in unpacked mode.
C22_TrailingZero ==
    [][(ret'.op = "SetField" /\ script' # script /\ ret'.value = 0
            /\ ret'.idx >= Len(ForEachField(ret.item, -1))) =>
        /\ ~ret'.updated
        /\ ret'.item.fdata = ret.item.fdata
        /\ fieldsDataSize(ret'.item) = fieldsDataSize(ret.item)
        /\ WeightAndPoints(ret'.item) = WeightAndPoints(ret.item)]_vars

\* the fields of an item of the workload, as ForEachField(-1) passes them
FieldsOf(flat, item) == IF flat THEN item.fdata ELSE ForEachField(item, -1)

\* C23: for every sequence of values vs (including the empty sequence),
\* after Item.CopyOverFields(vs) the fields iterated by ForEachField(-1) are
\* exactly vs, the fields previously stored are gone, and HasFields() is
\* true exactly when the new field byte length is positive.
C23_CopyValues ==
    ret.op = "CopyOverFields([]float64)" =>
        /\ FieldsOf(ret.flat, ret.item) = last
        /\ HasFields(ret.item) <=> fieldsDataSize(ret.item) > 0

\* C24: for any two items a and b, whether their packed flags are equal or
\* different, after a.CopyOverFields(b) the field sequence of a equals the
\* field sequence of b.
C24_CopyItem ==
    ret.op = "CopyOverFields(*Item)" =>
        FieldsOf(ret.flat, ret.item) = ForEachField(last, -1)

\* C25: after any sequence of SetField and CopyOverFields calls on an item,
\* in packed and unpacked mode and through every reallocation of the data
\* block, ID() returns the id given to New and the item's object and packed
\* flag are unchanged.
C25_IdKept ==
    /\ blockID(ret.it) = DataId
    /\ blockObj(ret.it) = DataObj
    /\ blockIsPacked(ret.it) = packed

(***************************************************************************)
(* Properties of the value scans                                           *)
(***************************************************************************)
\* the ids of the string items of the collection, and the order of the value
\* index on them: by value, then by id
StringIds == {id \in QIds : last[id] # NoObj /\ ~last[id].spatial}

ValueIdLess(a, b) ==
    \/ StrLess(last[a].str, last[b].str)
    \/ last[a].str = last[b].str /\ StrLess(a, b)

\* C26: SearchValues(desc=false) passes the string items of the collection
\* to the callback in strictly ascending (value, id) order, and
\* SearchValuesRange(start, end, desc=false) passes exactly the string items
\* whose value v satisfies start <= v < end, in that order; items whose value
\* equals end are excluded and items whose value equals start are included.
\* (No cursor offset, and a callback that always returns true.)
C26_ValueOrder ==
    (ret.op \in {"SearchValues", "SearchValuesRange"} /\ ~ret.desc
            /\ ret.offset = 0 /\ ret.stop = {}) =>
        LET inRange(id) ==
                \/ ret.op = "SearchValues"
                \/ StrLeq(ret.start, last[id].str) /\ StrLess(last[id].str, ret.end)
        IN  /\ Range(ret.out) = {id \in StringIds : inRange(id)}
            /\ \A k \in 1..(Len(ret.out) - 1) : ValueIdLess(ret.out[k], ret.out[k + 1])
            /\ ret.ok

\* a range from one value to the next over three strings: the two items of
\* the start value are passed, by id, and the item of the end value is not
C26_Witness ==
    /\ ret.op = "SearchValuesRange" /\ ~ret.desc /\ ret.offset = 0 /\ ret.stop = {}
    /\ Cardinality(StringIds) = NumQIds
    /\ \E id \in StringIds : last[id].str = ret.end
    /\ Len(ret.out) = NumQIds - 1
    /\ \A k \in 1..Len(ret.out) : last[ret.out[k]].str = ret.start

(***************************************************************************)
(* Properties of the cooperative yield                                     *)
(***************************************************************************)
\* C27: during every iterator the cooperative yield is invoked once per 255
\* results passed to the callback: between two consecutive yields exactly
\* 255 results are passed, and results skipped by the cursor offset are not
\* counted (so the first yield comes after 255 results, whatever the offset).
\* A yield is made before the result of its count is passed, so the results
\* passed between two yields are as many as the counts between them.
C27_YieldEvery255 ==
    ret.op = "iter" =>
        \A j \in 1..Len(ret.st.yields) :
            ret.st.yields[j] - (IF j = 1 THEN ret.st.offset ELSE ret.st.yields[j - 1])
                = yieldStep

(***************************************************************************)
(* Properties of the Fields view                                           *)
(***************************************************************************)
\* C28: no internal lock is held while a user callback runs: a callback
\* passed to Fields.ForEach may itself call Get or ForEach on the same
\* Fields view, for packed and unpacked items, and that nested call returns
\* instead of blocking forever.  (The mutex is free whenever a callback is
\* running, and no call waits for a mutex that its own caller holds.)
C28_NoLockInCallback ==
    ret.op = "Fields" =>
        /\ (\E k \in 1..Len(ret.stack) : ret.stack[k].pc = "iter") => ~ret.view.mu
        /\ ~(ret.stack # <<>> /\ Top(ret.stack).pc = "Lock" /\ ret.view.mu)

(***************************************************************************)
(* Properties of the counters                                              *)
(***************************************************************************)
\* the NumPoints() of the spatial items among the addresses S, summed
RECURSIVE SumPoints(_)
SumPoints(S) ==
    IF S = {} THEN 0
    ELSE LET a == CHOOSE x \in S : TRUE
         IN  (IF heap[a].obj.spatial THEN heap[a].obj.npoints ELSE 0)
                 + SumPoints(S \ {a})

\* C29: after any sequence of Set, Delete, SetField and SetFields calls,
\* PointCount() equals the sum of NumPoints() over the spatial items
\* currently in the collection, and SetField and SetFields never change
\* PointCount, Count or StringCount.
C29_PointCount ==
    /\ [](PointCount(Col) = SumPoints(LiveAddrs))
    /\ [][(ret'.n # ret.n /\ ret'.op \in {"SetField", "SetFields"}) =>
            /\ PointCount(Col)' = PointCount(Col)
            /\ Count(Col)' = Count(Col)
            /\ StringCount(Col)' = StringCount(Col)]_vars

\* a SetFields has just changed the fields of an item that lies next to a
\* rectangle (two points) and a string
C29_Witness ==
    /\ ret.op = "SetFields" /\ ret.ok
    /\ \E a \in LiveAddrs : Len(heap[a].fdata) > 0
    /\ \E a \in LiveAddrs : heap[a].obj.spatial /\ heap[a].obj.npoints = 2
    /\ \E a \in LiveAddrs : ~heap[a].obj.spatial
    /\ PointCount(Col) >= 2
    /\ StringCount(Col) >= 1

(***************************************************************************)
(* Properties of BTree.Set and BTree.Delete                                *)
(***************************************************************************)
TreeIdSet == {TreeIds[k] : k \in 1..Len(TreeIds)}

\* the item the tree holds under the id of the call just made
SetItem == BTreeGet(heap', items', ret'.id).item

\* c.items.Set(item) of the Set just made, on the tree and the items before it
ItemsSet == BTreeSet([heap EXCEPT ![SetItem] = heap'[SetItem]], items, SetItem)

\* c.items.Delete(id) of the Delete just made
ItemsDelete == BTreeDelete(heap, items, ret'.id)

\* C30: BTree.Set(item) returns (previous item, true) exactly when an item
\* with the same id was in the tree, leaving Len unchanged, and otherwise
\* returns (nil, false) and increases Len by one; BTree.Delete(id) returns
\* (item, true) and decreases Len by one exactly when the id was present,
\* and otherwise returns (nil, false) with Len unchanged; so Len always
\* equals the number of distinct ids in the tree.
C30_SetDelete ==
    /\ [](ret.op \in BulkCalls =>
            /\ BTreeLen(items) = Cardinality(TreeIdSet)
            /\ Len(TreeIds) = Cardinality(TreeIdSet))
    /\ [][(ret.op \in BulkCalls /\ ret'.op = "Set" /\ script'.k # script.k) =>
            /\ ItemsSet.tree = items'
            /\ ItemsSet.replaced <=> ret'.id \in TreeIdSet
            /\ ItemsSet.replaced =>
                  /\ ItemsSet.prev = BTreeGet(heap, items, ret'.id).item
                  /\ ItemsSet.prev # SetItem
                  /\ heap[ItemsSet.prev].id = ret'.id
                  /\ BTreeLen(items') = BTreeLen(items)
            /\ ~ItemsSet.replaced =>
                  /\ ItemsSet.prev = 0
                  /\ BTreeLen(items') = BTreeLen(items) + 1
            /\ TreeIdSet' = TreeIdSet \cup {ret'.id}]_vars
    /\ [][(ret.op \in BulkCalls /\ ret'.op = "Delete" /\ script'.d # script.d) =>
            /\ ItemsDelete.tree = items'
            /\ ItemsDelete.deleted <=> ret'.id \in TreeIdSet
            /\ ItemsDelete.deleted =>
                  /\ ItemsDelete.prev = BTreeGet(heap, items, ret'.id).item
                  /\ heap[ItemsDelete.prev].id = ret'.id
                  /\ BTreeLen(items') = BTreeLen(items) - 1
            /\ ~ItemsDelete.deleted =>
                  /\ ItemsDelete.prev = 0
                  /\ BTreeLen(items') = BTreeLen(items)
            /\ TreeIdSet' = TreeIdSet \ {ret'.id}]_vars

\* a Delete has just removed a present id from a tree of more than one node
\* that had ids replaced by Set before
C30_Witness ==
    /\ ret.op = "Delete" /\ ret.ok
    /\ script.phase = "drain" /\ script.k > NumKeys
    /\ items.height >= 1
    /\ BTreeLen(items) >= maxItems

(***************************************************************************)
(* Properties of the stored field count                                    *)
(***************************************************************************)
\* C31: per field index of an item, no SetField call ever decreases the
\* item's stored field count; an index that is present stays present under
\* every SetField, including SetField(i, 0), which stores 0 in place; an
\* index goes from present to absent only through CopyOverFields.  This
\* holds in packed and in unpacked mode.  (The stored field count is the
\* number of values ForEachField(-1) passes.)
C31_CountNeverFalls ==
    [][Len(blockForEachField(ret'.it)) < Len(blockForEachField(ret.it)) =>
            ret'.op = "CopyOverFields"]_vars

(***************************************************************************)
(* Properties of the shape of the identifier B-tree                        *)
(***************************************************************************)
\* the subtree of n, height levels above its leaves, is well formed: item
\* counts within the bounds, children exactly where a non-leaf has them
RECURSIVE WellFormed(_, _, _)
WellFormed(n, height, isRoot) ==
    /\ ~IsNilNode(n)
    /\ n.numItems <= maxItems - 1
    /\ ~isRoot => n.numItems >= minItems
    /\ IF height = 0
       THEN \A k \in 0..maxItems : IsNilNode(n.children[k])
       ELSE /\ \A k \in 0..n.numItems : WellFormed(n.children[k], height - 1, FALSE)
            /\ \A k \in (n.numItems + 1)..maxItems : IsNilNode(n.children[k])

\* C32: after every completed BTree.Set or BTree.Delete, starting from an
\* empty tree: all leaves are at depth equal to the tree height; every node
\* holds at most maxItems-1 items; every non-root node holds at least
\* minItems items; a non-leaf node with n items has exactly n+1 non-nil
\* children; and an empty tree has root = nil and height = 0.
C32_TreeShape ==
    ret.op \in BulkCalls =>
        IF BTreeLen(items) = 0
        THEN IsNilNode(items.root) /\ items.height = 0
        ELSE WellFormed(items.root, items.height, TRUE)

(***************************************************************************)
(* Properties of ScanRange                                                 *)
(***************************************************************************)
\* the ids of the collection the query was asked on
QLive == {id \in QIds : last[id] # NoObj}

\* the ids ScanRange(start, end, desc) is to pass
InScanRange(id) ==
    IF ret.desc THEN StrLess(ret.end, id) /\ StrLeq(id, ret.start)
    ELSE StrLeq(ret.start, id) /\ StrLess(id, ret.end)

\* the ids from start on, in the direction of the scan, at or past end
PastEnd(id) ==
    IF ret.desc THEN StrLeq(id, ret.start) /\ StrLeq(id, ret.end)
    ELSE StrLeq(ret.start, id) /\ StrLeq(ret.end, id)

\* C33: with no cursor, ScanRange(start, end, desc=false) passes to the
\* callback exactly the items with start <= id < end in ascending id order,
\* and ScanRange(start, end, desc=true) passes exactly the items with
\* end < id <= start in descending id order; the item that first reaches the
\* end bound is not passed to the callback and ends the scan with return
\* value true.  (The callback always returns true.)
C33_ScanRange ==
    (ret.op = "ScanRange" /\ ~ret.cursor /\ ret.stop = {}) =>
        /\ InOrder(ret.out, {id \in QLive : InScanRange(id)}, ret.desc)
        /\ ret.ok
        /\ IF \E id \in QLive : PastEnd(id)
           THEN /\ Len(ret.unpassed) = 1
                /\ PastEnd(ret.unpassed[1])
                /\ \A id \in QLive : PastEnd(id) =>
                      IF ret.desc THEN StrLeq(id, ret.unpassed[1])
                      ELSE StrLeq(ret.unpassed[1], id)
           ELSE ret.unpassed = <<>>

\* a descending range over three ids that begins at the greatest and ends
\* at the least: two are passed, and the one of the end id ends the scan
C33_Witness ==
    /\ ret.op = "ScanRange" /\ ~ret.cursor /\ ret.stop = {} /\ ret.desc
    /\ Cardinality(QLive) = NumQIds
    /\ Len(ret.out) = NumQIds - 1
    /\ ret.unpassed = <<ret.end>>
    /\ ret.out[1] = ret.start

(***************************************************************************)
(* Properties of the sparse searches                                       *)
(***************************************************************************)
\* C34: in one Within or Intersects call with sparse > 0, no id is passed to
\* the user callback as a match more than once, even when the item's box
\* lies in several quadrants: after an id has matched in one quadrant it is
\* suppressed in all later quadrants.
C34_MatchedOnce ==
    (ret.op \in {"Within", "Intersects"} /\ ret.sparse > 0) =>
        \A j, k \in 1..Len(ret.out) : ret.out[j] = ret.out[k] => j = k

\* the point at the centre of the square, which lies in all four quadrants,
\* was passed first, and the search went on to pass the point at the corner
C34_Witness ==
    /\ ret.op = "Intersects" /\ ret.sparse = 1 /\ ret.stop = {}
    /\ Len(ret.out) = 2
    /\ last[ret.out[1]] = PointObj(QSide \div 2, QSide \div 2)
    /\ last[ret.out[2]] = PointObj(0, 0)
    /\ ret.unpassed = <<>>

\* c.geoSparseInner(obj.Rect(), sparse, ...) as the sparse query of ret ran it:
\* its result is false when the traversal was aborted
SparseRun ==
    geoSparseInner(Col, ret.obj.min, ret.obj.max, ret.sparse,
                   [EnterCursor(NewIter(IF ret.op = "Within" THEN "within" ELSE "intersects",
                                        FALSE, <<>>, ret.obj, ret.cursor, ret.offset,
                                        ret.stop))
                       EXCEPT !.sparse = TRUE])

\* C35: in Within or Intersects with sparse > 0, the whole traversal is
\* aborted when, and only when, the user callback returns false: a candidate
\* that fails the within/intersects predicate does not stop the traversal,
\* and the remaining candidates of the quadrant and the remaining quadrants
\* are still examined.
C35_AbortOnlyOnFalse ==
    (ret.op \in {"Within", "Intersects"} /\ ret.sparse > 0) =>
        /\ SparseRun.st.out = ret.out
        /\ ~SparseRun.ok <=> (Range(ret.out) \cap ret.stop # {})

\* the leaf quadrants of the rectangle (min, max) split to depth d, in the
\* order top-left, top-right, bottom-left, bottom-right at every level
RECURSIVE LeafQuadrants(_, _, _)
LeafQuadrants(min, max, d) ==
    IF d = 0 THEN <<[min |-> min, max |-> max]>>
    ELSE LET midx == min[1] + ((max[1] - min[1]) \div 2)
             midy == min[2] + ((max[2] - min[2]) \div 2)
         IN  LeafQuadrants(<<min[1], midy>>, <<midx, max[2]>>, d - 1)
                 \o LeafQuadrants(<<midx, midy>>, max, d - 1)
                 \o LeafQuadrants(min, <<midx, midy>>, d - 1)
                 \o LeafQuadrants(<<midx, min[2]>>, <<max[1], midy>>, d - 1)

\* the ids out[i..] come from the leaf quadrants quads[q..], each from a
\* quadrant its box meets, no two from one quadrant, in the order of quads
RECURSIVE OnePerQuadrant(_, _, _, _)
OnePerQuadrant(out, quads, i, q) ==
    IF i > Len(out) THEN TRUE
    ELSE IF q > Len(quads) THEN FALSE
    ELSE IF RectIntersects(quads[q].min, quads[q].max,
                           last[out[i]].min, last[out[i]].max)
         THEN OnePerQuadrant(out, quads, i + 1, q + 1)
    ELSE OnePerQuadrant(out, quads, i, q + 1)

\* C37: in Within or Intersects with sparse = d > 0, the search inside each
\* leaf quadrant stops at that quadrant's first match, so at most one result
\* per leaf quadrant and at most 4^d results in total are passed to the user
\* callback, and the quadrants are visited in the order top-left, top-right,
\* bottom-left, bottom-right at every level.
C37_OnePerQuadrant ==
    (ret.op \in {"Within", "Intersects"} /\ ret.sparse > 0) =>
        /\ Len(ret.out) <= Pow2(2 * ret.sparse)
        /\ OnePerQuadrant(ret.out, LeafQuadrants(ret.obj.min, ret.obj.max, ret.sparse), 1, 1)

\* two points at the corner lie in one leaf quadrant, the bottom-left one,
\* and a rectangle in the top-right one: the rectangle was passed first, then
\* one of the two points, and no more
C37_Witness ==
    /\ ret.op = "Intersects" /\ ret.sparse = 1 /\ ret.stop = {} /\ ~ret.cursor
    /\ Cardinality({id \in QIds : last[id] = PointObj(0, 0)}) = 2
    /\ Len(ret.out) = 2
    /\ last[ret.out[1]] = RectObj(QSide - 1, QSide - 1, QSide + 1, QSide + 1)
    /\ last[ret.out[2]] = PointObj(0, 0)
    /\ ret.unpassed = <<>>

RECURSIVE TwinAfter(_, _)
TwinAfter(isPacked, k) ==
    IF k = 0 THEN [item |-> New(<<1>>, PointObj(0, 0), isPacked), updated |-> FALSE]
    ELSE ItemSetField(TwinAfter(isPacked, k - 1).item, script[k][1], script[k][2])

\* the item with the given packed flag after every call made so far: the
\* SetField calls of script and then the CopyOverFields(values), if any
Twin(isPacked) ==
    IF ret.op = "CopyOverFields([]float64)"
    THEN [item |-> CopyOverFieldsValues(TwinAfter(isPacked, Len(script)).item, last),
          updated |-> FALSE]
    ELSE TwinAfter(isPacked, Len(script))

TwinsAgree(p, u) ==
    /\ p.updated = u.updated
    /\ \A i \in 0..(MaxFieldIdx + 1) : GetField(p.item, i) = GetField(u.item, i)
    /\ \A count \in (-1)..(MaxFieldIdx + 2) :
            ForEachField(p.item, count) = ForEachField(u.item, count)

\* C38: a packed item and an unpacked item that receive the same sequence of
\* SetField and CopyOverFields(values) calls stay observationally equal:
\* every SetField returns the same updated flag on both, and after every
\* step GetField(i) for every i >= 0 and the sequence produced by
\* ForEachField(count) for every count are the same on both.
C38_PackedAsUnpacked ==
    (~ret.flat /\ ret.op \in {"SetField", "CopyOverFields([]float64)"}) =>
        /\ ret.item = Twin(ret.item.isPacked).item
        /\ TwinsAgree(Twin(TRUE), Twin(FALSE))

(***************************************************************************)
(* The counters and the three indexes                                      *)
(***************************************************************************)
\* C39: in every reachable collection state, Count() equals the number of
\* items in the identifier B-tree (the number of live ids), StringCount()
\* equals the number of entries in the value B-tree, and the number of
\* entries in the R-tree is at most Count() - StringCount().
C39_Counts ==
    /\ Count(Col) = Len(TreeIds)
    /\ Count(Col) = Cardinality({id \in Ids : last[id] # NoObj})
    /\ StringCount(Col) = Len(values)
    /\ Len(index) <= Count(Col) - StringCount(Col)

\* a string and a spatial object without geometry are in the collection:
\* both are counted, one is in the value B-tree and none in the R-tree
C39_Witness ==
    /\ Count(Col) = 2 /\ StringCount(Col) = 1
    /\ Len(values) = 1 /\ Len(index) = 0
    /\ \E id \in Ids : last[id] = EmptyObj

(***************************************************************************)
(* The Fields view and its item                                            *)
(***************************************************************************)
IsPrefix(s, t) == Len(s) <= Len(t) /\ s = SubSeq(t, 1, Len(s))

\* C40: as long as the item is not mutated after the view is created, a
\* Fields view agrees with its item for packed and unpacked items:
\* Fields.Get(i) equals Item.GetField(i) for every i >= 0,
\* Fields.ForEach(count, fn) passes the same sequence as
\* Item.ForEachField(count, fn) (all stored fields when count < 0, exactly
\* count slots padded with 0 otherwise, stopping when fn returns false), and
\* an item without fields has a nil view whose Get returns 0.
C40_ViewAgrees ==
    ret.op = "Fields" =>
        /\ ret.view.nil <=> ~HasFields(ret.view.item)
        /\ \A k \in 1..Len(script) :
              IF script[k].fn = "Get"
              THEN ~script[k].open =>
                      /\ script[k].out = <<GetField(ret.view.item, script[k].arg)>>
                      /\ ret.view.nil => script[k].out = <<0>>
              ELSE /\ IsPrefix(script[k].out, ForEachField(ret.view.item, script[k].arg))
                   /\ (~script[k].open /\ ~script[k].stopped) =>
                          script[k].out = ForEachField(ret.view.item, script[k].arg)

====
